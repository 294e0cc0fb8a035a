------------------------- MODULE TripIncidentProofs -------------------------
(***************************************************************************)
(* Proofs that hold for every number of tickets, requests and deliveries:  *)
(* type correctness, the inductive invariant IInv of TripIncident and what *)
(* it says of the compensations a passenger gets.                          *)
(***************************************************************************)
EXTENDS TripIncident, TLAPS, FiniteSetTheorems, SequenceTheorems

-----------------------------------------------------------------------------
(* The constants of the model *)

\* The rows of the workflow: no way out of a cancelled trip, one way in for each
\* cancellation, and no way back to before the departure.
LEMMA EdgeFacts ==
    \A x \in Edges :
        /\ x[1] \in TripStates /\ x[2] \in Verbs /\ x[3] \in TripStates
        /\ x[1] \notin {"CANCELLED", "CANCELLED_IN_TRANSIT"}
        /\ x[3] = "CANCELLED" <=> x[2] = "CANCEL"
        /\ x[3] = "CANCELLED_IN_TRANSIT" <=> x[2] = "CANCEL_IN_TRANSIT"
        /\ x[3] \in Before => x[1] \in Before
        /\ x[2] \in {"CANCEL_IN_TRANSIT", "DECLARE_MAJOR_DELAY"} => x[3] \notin Before
<1> TAKE x \in Edges
<1>1. x[1] \in TripStates /\ x[2] \in Verbs /\ x[3] \in TripStates
  BY DEF TripStates, Verbs
<1>2. CASE x \in TripEdges
  BY <1>1, <1>2 DEF TripEdges, Before
<1>3. CASE x \in IncidentEdges
  BY <1>1, <1>3 DEF IncidentEdges, Before
<1> QED BY <1>2, <1>3 DEF Edges

\* Short sequences, put together.
LEMMA Joined ==
    ASSUME NEW a \in Kinds, NEW b \in Kinds, NEW c \in Kinds
    PROVE  <<a>> \o <<b>> = <<a, b>> /\ <<a, b>> \o <<c>> = <<a, b, c>>
<1>1. /\ <<a>> \in Seq(Kinds) /\ <<b>> \in Seq(Kinds) /\ <<c>> \in Seq(Kinds)
      /\ <<a, b>> \in Seq(Kinds) /\ <<a, b, c>> \in Seq(Kinds)
  OBVIOUS
<1>2. /\ Len(<<a>>) = 1 /\ Len(<<b>>) = 1 /\ Len(<<c>>) = 1
      /\ Len(<<a, b>>) = 2 /\ Len(<<a, b, c>>) = 3
  OBVIOUS
<1>3. <<a>> \o <<b>> = <<a, b>>
  <2>1. (<<a>> \o <<b>>)[1] = a /\ (<<a>> \o <<b>>)[2] = b
    BY <1>1, <1>2
  <2>2. Len(<<a>> \o <<b>>) = 2 /\ <<a>> \o <<b>> \in Seq(Kinds)
    BY <1>1, <1>2
  <2>3. \A i \in 1 .. 2 : (<<a>> \o <<b>>)[i] = <<a, b>>[i]
    BY <2>1
  <2> QED BY <1>1, <1>2, <2>2, <2>3, SeqEqual
<1>4. <<a, b>> \o <<c>> = <<a, b, c>>
  <2>1. /\ (<<a, b>> \o <<c>>)[1] = a /\ (<<a, b>> \o <<c>>)[2] = b
        /\ (<<a, b>> \o <<c>>)[3] = c
    BY <1>1, <1>2
  <2>2. Len(<<a, b>> \o <<c>>) = 3 /\ <<a, b>> \o <<c>> \in Seq(Kinds)
    BY <1>1, <1>2
  <2>3. \A i \in 1 .. 3 : (<<a, b>> \o <<c>>)[i] = <<a, b, c>>[i]
    BY <2>1
  <2> QED BY <1>1, <1>2, <2>2, <2>3, SeqEqual
<1> QED BY <1>3, <1>4

\* The sequences of kinds are those in the order refund, voucher, item.
LEMMA KindSequences ==
    DelayKinds = {<<>>, <<"refund">>, <<"voucher">>, <<"item">>, <<"refund", "voucher">>,
                  <<"refund", "item">>, <<"voucher", "item">>, <<"refund", "voucher", "item">>}
<1>1. "refund" \in Kinds /\ "voucher" \in Kinds /\ "item" \in Kinds
  BY DEF Kinds
<1>2. /\ <<"refund">> \o <<"item">> = <<"refund", "item">>
      /\ <<"voucher">> \o <<"item">> = <<"voucher", "item">>
      /\ <<"refund", "voucher">> \o <<"item">> = <<"refund", "voucher", "item">>
  BY <1>1, Joined
<1>3. /\ <<>> \o <<>> = <<>> /\ <<>> \o <<"item">> = <<"item">>
      /\ <<"refund">> \o <<>> = <<"refund">> /\ <<"voucher">> \o <<>> = <<"voucher">>
      /\ <<"refund", "voucher">> \o <<>> = <<"refund", "voucher">>
  OBVIOUS
<1>4. DelayKinds = {<<"refund">> \o <<>>, <<"refund">> \o <<"item">>,
                    <<"voucher">> \o <<>>, <<"voucher">> \o <<"item">>,
                    <<"refund", "voucher">> \o <<>>, <<"refund", "voucher">> \o <<"item">>,
                    <<>> \o <<>>, <<>> \o <<"item">>}
  <2>1. \A k : k \in DelayKinds <=>
               \E money \in {<<"refund">>, <<"voucher">>, <<"refund", "voucher">>, <<>>} :
               \E snack \in {<<>>, <<"item">>} : k = money \o snack
    BY DEF DelayKinds
  <2> QED BY <2>1
<1> QED BY <1>2, <1>3, <1>4, Zenon

\* A loop takes the kinds one by one, none of them twice.
LEMMA KindFacts ==
    ASSUME NEW s \in DelayKinds
    PROVE  /\ s = <<>> => Elems(s) = {}
           /\ s # <<>> => /\ Head(s) \in Kinds /\ Tail(s) \in DelayKinds
                          /\ Elems(s) = {Head(s)} \cup Elems(Tail(s))
                          /\ Head(s) \notin Elems(Tail(s))
           /\ Elems(s) \subseteq Kinds
<1>1. CASE s = <<>>
  BY <1>1 DEF Elems
<1>2. ASSUME NEW a, s = <<a>>, a \in Kinds
      PROVE  Head(s) = a /\ Tail(s) = <<>> /\ Elems(s) = {a}
  BY <1>2 DEF Elems
<1>3. ASSUME NEW a, NEW b, s = <<a, b>>, a \in Kinds, b \in Kinds
      PROVE  Head(s) = a /\ Tail(s) = <<b>> /\ Elems(s) = {a, b} /\ Elems(<<b>>) = {b}
  BY <1>3 DEF Elems
<1>4. ASSUME NEW a, NEW b, NEW c, s = <<a, b, c>>, a \in Kinds, b \in Kinds, c \in Kinds
      PROVE  /\ Head(s) = a /\ Tail(s) = <<b, c>> /\ Elems(s) = {a, b, c}
             /\ Elems(<<b, c>>) = {b, c}
  BY <1>4 DEF Elems
<1>5. Elems(<<>>) = {}
  BY DEF Elems
<1>6. "refund" \in Kinds /\ "voucher" \in Kinds /\ "item" \in Kinds
  BY DEF Kinds
<1>7. CASE s \in {<<"refund">>, <<"voucher">>, <<"item">>}
  <2>1. PICK a \in Kinds : s = <<a>>
    BY <1>6, <1>7
  <2>2. <<>> \in DelayKinds /\ s # <<>>
    BY <2>1, KindSequences
  <2> QED BY <1>2, <1>5, <2>1, <2>2
<1>8. CASE s \in {<<"refund", "voucher">>, <<"refund", "item">>, <<"voucher", "item">>}
  <2>1. PICK a \in Kinds, b \in Kinds : s = <<a, b>> /\ a # b
    BY <1>6, <1>8
  <2>2. <<b>> \in DelayKinds /\ s # <<>>
    BY <2>1, KindSequences DEF Kinds
  <2> QED BY <1>3, <2>1, <2>2
<1>9. CASE s = <<"refund", "voucher", "item">>
  <2>1. /\ Head(s) = "refund" /\ Tail(s) = <<"voucher", "item">> /\ Elems(s) = {"refund", "voucher", "item"}
        /\ Elems(<<"voucher", "item">>) = {"voucher", "item"}
    BY <1>4, <1>6, <1>9
  <2>2. <<"voucher", "item">> \in DelayKinds /\ s # <<>>
    BY <1>9, KindSequences
  <2> QED BY <1>6, <2>1, <2>2
<1> QED BY <1>1, <1>7, <1>8, <1>9, KindSequences

\* Other sequences the fan-out takes.
LEMMA OtherKinds ==
    /\ TransitKinds \subseteq DelayKinds /\ <<>> \in DelayKinds /\ <<"refund">> \in DelayKinds
    /\ Head(<<"refund">>) = "refund" /\ Tail(<<"refund">>) = <<>> /\ <<"refund">> # <<>>
  BY KindSequences DEF TransitKinds

\* A row more for one ticket.
LEMMA GiveFacts ==
    ASSUME given \in [Tickets -> [Rows -> Nat]], NEW t \in Tickets, NEW c \in Rows,
           given' = [given EXCEPT ![t][c] = @ + 1]
    PROVE  /\ given' \in [Tickets -> [Rows -> Nat]]
           /\ given'[t][c] = given[t][c] + 1
           /\ \A u \in Tickets, d \in Rows : u # t \/ d # c => given'[u][d] = given[u][d]
  OBVIOUS

\* The rows of a ticket, by reason and kind.
LEMMA RowFacts ==
    \A r \in Reasons, k \in Kinds : <<r, k>> \in Rows
  BY DEF Rows, Kinds

\* Counting promises.
LEMMA Counting ==
    ASSUME NEW P, NEW Q, NEW w, IsFiniteSet(P)
    PROVE  /\ Cardinality(P) \in Nat
           /\ Q \subseteq P => /\ IsFiniteSet(Q) /\ Cardinality(Q) \in Nat
                               /\ Cardinality(Q) <= Cardinality(P)
           /\ Q \subseteq P \cup {w} => /\ IsFiniteSet(Q) /\ Cardinality(Q) \in Nat
                                        /\ Cardinality(Q) <= Cardinality(P) + 1
           /\ Q \subseteq P \ {w} /\ w \in P => /\ IsFiniteSet(Q) /\ Cardinality(Q) \in Nat
                                                /\ Cardinality(Q) + 1 <= Cardinality(P)
<1>1. Cardinality(P) \in Nat
  BY FS_CardinalityType
<1>2. \A S, T : IsFiniteSet(S) /\ T \subseteq S =>
        IsFiniteSet(T) /\ Cardinality(T) \in Nat /\ Cardinality(T) <= Cardinality(S)
  BY FS_Subset, FS_CardinalityType
<1>3. /\ IsFiniteSet(P \cup {w}) /\ Cardinality(P \cup {w}) \in Nat
      /\ Cardinality(P \cup {w}) <= Cardinality(P) + 1
  BY <1>1, FS_AddElement, FS_CardinalityType
<1>4. /\ IsFiniteSet(P \ {w}) /\ Cardinality(P \ {w}) \in Nat
      /\ w \in P => Cardinality(P \ {w}) = Cardinality(P) - 1
  BY <1>1, FS_RemoveElement, FS_CardinalityType
<1>5. Q \subseteq P \cup {w} => /\ IsFiniteSet(Q) /\ Cardinality(Q) \in Nat
                                /\ Cardinality(Q) <= Cardinality(P) + 1
  <2> SUFFICES ASSUME Q \subseteq P \cup {w}
               PROVE  IsFiniteSet(Q) /\ Cardinality(Q) \in Nat /\ Cardinality(Q) <= Cardinality(P) + 1
    OBVIOUS
  <2>1. IsFiniteSet(Q) /\ Cardinality(Q) \in Nat /\ Cardinality(Q) <= Cardinality(P \cup {w})
    BY <1>2, <1>3
  <2> QED BY <1>1, <1>3, <2>1
<1>6. Q \subseteq P \ {w} /\ w \in P => /\ IsFiniteSet(Q) /\ Cardinality(Q) \in Nat
                                        /\ Cardinality(Q) + 1 <= Cardinality(P)
  <2> SUFFICES ASSUME Q \subseteq P \ {w}, w \in P
               PROVE  IsFiniteSet(Q) /\ Cardinality(Q) \in Nat /\ Cardinality(Q) + 1 <= Cardinality(P)
    OBVIOUS
  <2>1. IsFiniteSet(Q) /\ Cardinality(Q) \in Nat /\ Cardinality(Q) <= Cardinality(P \ {w})
    BY <1>2, <1>4
  <2> QED BY <1>1, <1>4, <2>1
<1> QED BY <1>1, <1>2, <1>5, <1>6

-----------------------------------------------------------------------------
(* What the steps write *)

\* What a request carries.
LEMMA JobFields ==
    /\ NoJob \in Jobs
    /\ \A j \in Jobs : /\ j.left \subseteq Tickets /\ j.kinds \in DelayKinds /\ j.todo \in DelayKinds
                       /\ j.on \in Tickets \cup {None} /\ j.why \in Reasons \cup {None} /\ j.ver \in Nat
  BY OtherKinds DEF NoJob, Jobs

\* A loop that begins.
LEMMA LoopFacts ==
    ASSUME NEW k \in DelayKinds, NEW why \in Reasons
    PROVE  /\ Loop(k, why) \in Jobs
           /\ Loop(k, why).left = Active /\ Loop(k, why).kinds = k
           /\ Loop(k, why).todo = <<>> /\ Loop(k, why).why = why
<1>1. Active \subseteq Tickets /\ NoJob \in Jobs
  BY JobFields DEF Active
<1>2. Loop(k, why) = [NoJob EXCEPT !.left = Active, !.kinds = k, !.why = why]
  BY DEF Loop
<1> HIDE DEF Active
<1> QED BY <1>1, <1>2 DEF NoJob, Jobs

\* The row a loop creates next, and what is left of it.
LEMMA NextRow ==
    ASSUME NEW j \in Jobs, j.kinds # <<>>, j.todo # <<>> => j.on \in Tickets, NEW t \in Candidates(j)
    PROVE  /\ t \in Tickets /\ Todo(j) \in DelayKinds /\ Todo(j) # <<>> /\ Head(Todo(j)) \in Kinds
           /\ After(j, t) \in Jobs
           /\ After(j, t).left = j.left \ {t} /\ After(j, t).on = t
           /\ After(j, t).todo = Tail(Todo(j)) /\ After(j, t).kinds = j.kinds
           /\ After(j, t).why = j.why
<1>1. /\ j.left \subseteq Tickets /\ j.kinds \in DelayKinds /\ j.todo \in DelayKinds
  BY JobFields
<1>2. t \in Tickets
  BY <1>1 DEF Candidates
<1>3. Todo(j) \in DelayKinds /\ Todo(j) # <<>>
  BY <1>1 DEF Todo
<1>4. Head(Todo(j)) \in Kinds /\ Tail(Todo(j)) \in DelayKinds
  BY <1>3, KindFacts
<1>5. PICK rest : rest = Tail(Todo(j)) /\ rest \in DelayKinds
  BY <1>4
<1>6. After(j, t) = [j EXCEPT !.left = @ \ {t}, !.on = t, !.todo = rest]
  BY <1>5 DEF After
<1>7. /\ After(j, t) \in Jobs
      /\ After(j, t).left = j.left \ {t} /\ After(j, t).on = t
      /\ After(j, t).todo = rest /\ After(j, t).kinds = j.kinds
      /\ After(j, t).why = j.why
  BY <1>1, <1>2, <1>5, <1>6 DEF Jobs
<1> QED BY <1>2, <1>3, <1>4, <1>5, <1>7

\* A request goes to its next step.
LEMMA Moves ==
    ASSUME IInv, NEW w \in Workers, NEW step \in {"idle", "tx", "loop", "bulk"}, NEW j \in Jobs, Goto(w, step, j)
    PROVE  /\ pc' \in [Workers -> {"idle", "tx", "loop", "bulk"}] /\ job' \in [Workers -> Jobs]
           /\ pc'[w] = step /\ job'[w] = j
           /\ \A u \in Workers \ {w} : pc'[u] = pc[u] /\ job'[u] = job[u]
  BY DEF Goto, IInv, TypeOK

\* What nobody touches of a request stays true of it when the trip only moves on.
LEMMA OthersCarry ==
    ASSUME IInv, NEW u \in Workers, pc'[u] = pc[u], job'[u] = job[u],
           trip' = trip \/ trip'.ver = trip.ver + 1
    PROVE  Carries(u)'
<1>1. Carries(u) /\ job[u].ver \in Nat /\ trip.ver \in Nat
  BY JobFields DEF IInv, TypeOK
<1>2. pc[u] = "tx" => /\ job[u].ver <= trip'.ver
                      /\ job[u].ver = trip'.ver => job[u].was = trip'.status
  BY <1>1 DEF Carries
<1> QED BY <1>1, <1>2 DEF Carries

\* The promises of the delays are kept when no worker promises more.
LEMMA AccountKept ==
    ASSUME IInv, declared \in Nat, declared' \in Nat, declared <= declared', given' \in [Tickets -> [Rows -> Nat]],
           \A t \in Tickets, k \in Kinds : given'[t][<<"MAJOR_DELAY", k>>] = given[t][<<"MAJOR_DELAY", k>>],
           \A u \in Workers, t \in Tickets, k \in Kinds : Promises(u, t, k)' => Promises(u, t, k)
    PROVE  DelayAccount'
<1> SUFFICES ASSUME NEW t \in Tickets, NEW k \in Kinds
             PROVE  /\ IsFiniteSet(Promising(t, k)')
                    /\ given'[t][<<"MAJOR_DELAY", k>>] + Cardinality(Promising(t, k)') <= declared'
  BY DEF DelayAccount
<1>1. PICK P, Q : P = Promising(t, k) /\ Q = Promising(t, k)'
  OBVIOUS
<1>2. Q \subseteq P
  BY <1>1 DEF Promising
<1>3. PICK n \in Nat : n = given[t][<<"MAJOR_DELAY", k>>] /\ n = given'[t][<<"MAJOR_DELAY", k>>]
  BY RowFacts DEF IInv, TypeOK, Reasons
<1>4. IsFiniteSet(P) /\ n + Cardinality(P) <= declared
  BY <1>1, <1>3 DEF IInv, DelayAccount
<1>5. /\ Cardinality(P) \in Nat /\ IsFiniteSet(Q) /\ Cardinality(Q) \in Nat
      /\ Cardinality(Q) <= Cardinality(P)
  BY <1>2, <1>4, Counting
<1>6. n + Cardinality(Q) <= declared'
  BY <1>4, <1>5
<1> QED BY <1>1, <1>3, <1>5, <1>6

-----------------------------------------------------------------------------
(* Steps that leave the trip and the incidents alone *)

\* A step of w that is in no loop of an incident: nothing but the listener's refunds grows.
LEMMA Aside ==
    ASSUME IInv, NEW w \in Workers, NEW step \in {"idle", "tx", "bulk"}, NEW j \in Jobs, Goto(w, step, j),
           Carries(w)', UNCHANGED <<trip, ticket, autoApprove, declared, due>>,
           given' \in [Tickets -> [Rows -> Nat]],
           \A t \in Tickets, r \in Reasons \ {"TRIP_CANCELLED"}, k \in Kinds :
              given'[t][<<r, k>>] = given[t][<<r, k>>],
           \A t \in Tickets : given'[t][<<"TRIP_CANCELLED", "refund">>] >= given[t][<<"TRIP_CANCELLED", "refund">>],
           trip.status # "CANCELLED" => /\ event'.status = "none" /\ step # "bulk"
                                        /\ given' = given,
           step = "bulk" => \A t \in due \cap Active :
              t \in j.left \/ given'[t][<<"TRIP_CANCELLED", "refund">>] > 0,
           event' \in [type : {None, "trip.cancel", "trip.cancelled"},
                      status : {"none", "PENDING", "DELIVERED"}, tries : 0 .. MaxDeliveries],
           lost' \in BOOLEAN, DeliveredCoversTrip'
    PROVE  IInv'
<1>0. /\ TypeOK /\ DelayAccount /\ OneTransitLoop /\ Apart /\ Covers
      /\ "INCIDENT_IN_TRANSIT" \in Reasons \ {"TRIP_CANCELLED"} /\ "MAJOR_DELAY" \in Reasons \ {"TRIP_CANCELLED"}
      /\ "refund" \in Kinds
  BY DEF IInv, Reasons, Kinds
<1>1. /\ pc' \in [Workers -> {"idle", "tx", "loop", "bulk"}] /\ job' \in [Workers -> Jobs]
      /\ pc'[w] = step /\ job'[w] = j
      /\ \A u \in Workers \ {w} : pc'[u] = pc[u] /\ job'[u] = job[u]
  BY Moves
<1>2. TypeOK'
  BY <1>0, <1>1 DEF TypeOK
<1>3. \A u \in Workers : Carries(u)'
  BY <1>1, OthersCarry
<1>4. ASSUME NEW u \in Workers, pc'[u] = "loop" PROVE u # w /\ pc[u] = "loop" /\ job'[u] = job[u]
  BY <1>1, <1>4
<1>5. DelayAccount'
  <2>1. \A u \in Workers, t \in Tickets, k \in Kinds : Promises(u, t, k)' => Promises(u, t, k)
    BY <1>4 DEF Promises
  <2>2. /\ declared \in Nat /\ declared' \in Nat /\ declared <= declared'
        /\ given' \in [Tickets -> [Rows -> Nat]]
        /\ \A t \in Tickets, k \in Kinds :
              given'[t][<<"MAJOR_DELAY", k>>] = given[t][<<"MAJOR_DELAY", k>>]
    BY <1>0 DEF TypeOK
  <2> QED BY <2>1, <2>2, AccountKept
<1>6. OneTransitLoop'
  <2>1. \A u \in Workers : InTransit(u)' => InTransit(u) /\ job'[u] = job[u]
    BY <1>4 DEF InTransit
  <2> QED BY <1>0, <2>1 DEF OneTransitLoop
<1>7. Apart'
  <2>1. trip.status # "CANCELLED" => \A u \in Workers : pc'[u] # "bulk"
    BY <1>0, <1>1 DEF Apart
  <2>2. trip.status \in Before => \A u \in Workers : pc'[u] # "loop"
    BY <1>0, <1>4 DEF Apart
  <2> QED BY <1>0, <2>1, <2>2 DEF Apart
<1>8. Covers'
  <2>1. ASSUME NEW u \in Workers, pc'[u] = "bulk", NEW t \in (due \cap Active)'
        PROVE  t \in job'[u].left \/ given'[t][<<"TRIP_CANCELLED", "refund">>] > 0
    <3>1. t \in due \cap Active /\ t \in Tickets
      BY <2>1 DEF Active
    <3>2. CASE u = w
      BY <1>1, <2>1, <3>1, <3>2
    <3>3. CASE u # w
      <4>1. t \in job[u].left \/ given[t][<<"TRIP_CANCELLED", "refund">>] > 0
        BY <1>0, <1>1, <2>1, <3>1, <3>3 DEF Covers
      <4>2. /\ given[t][<<"TRIP_CANCELLED", "refund">>] \in Nat
            /\ given'[t][<<"TRIP_CANCELLED", "refund">>] \in Nat
        BY <1>0, <3>1, RowFacts DEF TypeOK, Reasons
      <4> QED BY <1>1, <3>1, <3>3, <4>1, <4>2
    <3> QED BY <3>2, <3>3
  <2> QED BY <1>0, <2>1 DEF Covers
<1> QED BY <1>1, <1>2, <1>3, <1>5, <1>6, <1>7, <1>8 DEF IInv

\* A request reads the trip, or ends; the listener ends its loop.
LEMMA PlainSteps ==
    ASSUME IInv, NEW w \in Workers,
           \/ \E a \in Verbs, by \in Routes \cup {"incident"} : ReadTrip(w, a, by)
           \/ Fail(w) \/ BulkDone(w) \/ BulkError(w)
    PROVE  IInv'
<1>0. /\ UNCHANGED <<trip, ticket, autoApprove, declared, due, given>> /\ TypeOK /\ Apart /\ Covers /\ Carries(w)
      /\ job[w] \in Jobs
  BY DEF IInv, ReadTrip, Fail, BulkDone, BulkError, hist
<1>1. lost' \in BOOLEAN
  BY <1>0 DEF TypeOK, ReadTrip, Fail, BulkDone, BulkError, hist
<1>2. \/ event' = event
      \/ pc[w] = "bulk" /\ event' = [event EXCEPT !.status = "DELIVERED"]
  BY DEF ReadTrip, Fail, BulkDone, BulkError, Delivered
<1>3. /\ event' \in [type : {None, "trip.cancel", "trip.cancelled"},
                     status : {"none", "PENDING", "DELIVERED"}, tries : 0 .. MaxDeliveries]
      /\ trip.status # "CANCELLED" => event'.status = "none"
  BY <1>0, <1>2 DEF TypeOK, Apart
<1>4. DeliveredCoversTrip'
  <2>1. CASE event' = event /\ lost' = lost
    BY <1>0, <2>1 DEF Covers, DeliveredCoversTrip, Active
  <2>2. CASE BulkDone(w)
    <3>1. pc[w] = "bulk" /\ job[w].todo = <<>> /\ job[w].left = {}
      BY <1>0, <2>2 DEF BulkDone, Carries, Candidates
    <3>2. \A t \in due \cap Active : given[t][<<"TRIP_CANCELLED", "refund">>] > 0
      BY <1>0, <3>1 DEF Covers
    <3> QED BY <1>0, <3>2 DEF DeliveredCoversTrip, Active
  <2>3. CASE BulkError(w)
    BY <2>3 DEF BulkError, DeliveredCoversTrip
  <2> QED BY <2>1, <2>2, <2>3 DEF ReadTrip, Fail, hist
<1>5. CASE Fail(w) \/ BulkDone(w) \/ BulkError(w)
  <2>1. Goto(w, "idle", NoJob)
    BY <1>5 DEF Fail, BulkDone, BulkError, Delivered, Finish
  <2>2. pc'[w] = "idle" /\ NoJob \in Jobs
    BY <2>1, Moves, JobFields
  <2>3. Carries(w)'
    BY <2>2 DEF Carries
  <2>4. \A t \in Tickets : given[t][<<"TRIP_CANCELLED", "refund">>] \in Nat
    BY <1>0, RowFacts DEF TypeOK, Reasons, Kinds
  <2> QED BY <1>0, <1>1, <1>3, <1>4, <2>1, <2>2, <2>3, <2>4, Aside DEF TypeOK
<1>6. ASSUME NEW a \in Verbs, NEW by \in Routes \cup {"incident"}, ReadTrip(w, a, by) PROVE IInv'
  <2>1. PICK j : j = [NoJob EXCEPT !.do = a, !.was = trip.status, !.ver = trip.ver, !.by = by]
    OBVIOUS
  <2>2. Goto(w, "tx", j)
    BY <1>6, <2>1 DEF ReadTrip
  <2>3. trip.status \in TripStates /\ trip.ver \in Nat
    BY <1>0 DEF TypeOK
  <2>4. /\ j \in Jobs /\ j.do = a /\ j.was = trip.status /\ j.ver = trip.ver
    BY <2>1, <2>3, JobFields DEF NoJob, Jobs
  <2>5. pc'[w] = "tx" /\ job'[w] = j
    BY <2>2, <2>4, Moves
  <2>6. Carries(w)'
    BY <1>0, <2>3, <2>4, <2>5 DEF Carries
  <2>7. \A t \in Tickets : given[t][<<"TRIP_CANCELLED", "refund">>] \in Nat
    BY <1>0, RowFacts DEF TypeOK, Reasons, Kinds
  <2> QED BY <1>0, <1>1, <1>3, <1>4, <2>2, <2>4, <2>6, <2>7, Aside DEF TypeOK
<1> QED BY <1>5, <1>6

\* The outbox starts a delivery: the listener owes each active ticket its refund.
LEMMA DeliverStep ==
    ASSUME IInv, NEW w \in Workers, Deliver(w)
    PROVE  IInv'
<1>0. /\ UNCHANGED <<trip, ticket, autoApprove, declared, due, lost, given>> /\ TypeOK /\ Apart /\ Covers
      /\ event.status = "PENDING" /\ event.tries < MaxDeliveries /\ MaxDeliveries \in Nat
  BY TripIncidentAssumption DEF IInv, Deliver, hist
<1>1. trip.status = "CANCELLED"
  BY <1>0 DEF Apart
<1>2. \A t \in Tickets : given[t][<<"TRIP_CANCELLED", "refund">>] \in Nat
  BY <1>0, RowFacts DEF TypeOK, Reasons, Kinds
<1>3. CASE event.type = "trip.cancelled"
  <2>1. PICK j : j = Loop(<<"refund">>, "TRIP_CANCELLED")
    OBVIOUS
  <2>2. Goto(w, "bulk", j) /\ event' = [event EXCEPT !.tries = @ + 1]
    BY <1>3, <2>1 DEF Deliver
  <2>3. /\ j \in Jobs /\ j.left = Active /\ j.kinds = <<"refund">> /\ j.todo = <<>>
        /\ j.why = "TRIP_CANCELLED"
    BY <2>1, OtherKinds, LoopFacts DEF Reasons
  <2>4. pc'[w] = "bulk" /\ job'[w] = j
    BY <2>2, <2>3, Moves
  <2>5. Carries(w)'
    BY <2>3, <2>4, OtherKinds DEF Carries
  <2>6. /\ event' \in [type : {None, "trip.cancel", "trip.cancelled"},
                       status : {"none", "PENDING", "DELIVERED"}, tries : 0 .. MaxDeliveries]
        /\ event'.status = "PENDING"
    BY <1>0, <2>2 DEF TypeOK
  <2>7. DeliveredCoversTrip'
    BY <2>6 DEF DeliveredCoversTrip
  <2> QED BY <1>0, <1>1, <1>2, <2>2, <2>3, <2>5, <2>6, <2>7, Aside DEF TypeOK
<1>4. CASE event.type # "trip.cancelled"
  <2>1. UNCHANGED <<pc, job>> /\ event' = [event EXCEPT !.status = "DELIVERED"]
    BY <1>4 DEF Deliver
  <2>2. /\ event' \in [type : {None, "trip.cancel", "trip.cancelled"},
                       status : {"none", "PENDING", "DELIVERED"}, tries : 0 .. MaxDeliveries]
        /\ event'.type = event.type
    BY <1>0, <2>1 DEF TypeOK
  <2>3. TypeOK' /\ (job \in [Workers -> Jobs])'
    BY <1>0, <2>1, <2>2 DEF TypeOK, IInv
  <2>4. \A u \in Workers : Carries(u)'
    BY <1>0, <2>1, OthersCarry
  <2>5. DelayAccount' /\ OneTransitLoop'
    BY <1>0, <2>1 DEF IInv, DelayAccount, Promising, Promises, OneTransitLoop, InTransit
  <2>6. Apart'
    BY <1>0, <1>1, <2>1 DEF Apart
  <2>7. Covers'
    BY <1>0, <1>4, <2>1, <2>2 DEF Covers, DeliveredCoversTrip, Active
  <2> QED BY <2>3, <2>4, <2>5, <2>6, <2>7 DEF IInv
<1> QED BY <1>3, <1>4

\* The listener creates the refund of one ticket, and goes on or fails at its approval.
LEMMA BulkStep ==
    ASSUME IInv, NEW w \in Workers, Bulk(w)
    PROVE  IInv'
<1>0. /\ UNCHANGED <<trip, ticket, autoApprove, declared, due>> /\ TypeOK /\ Apart /\ Covers
      /\ job[w] \in Jobs /\ pc[w] = "bulk" /\ Carries(w)
  BY DEF IInv, Bulk
<1>1. /\ job[w].kinds = <<"refund">> /\ job[w].todo = <<>> /\ job[w].why = "TRIP_CANCELLED"
      /\ job[w].kinds # <<>>
  BY <1>0 DEF Carries
<1>2. PICK j : j = job[w]
  OBVIOUS
<1>3. PICK t \in Candidates(j) :
        /\ Give(j, t)
        /\ \/ autoApprove /\ Delivered(w) /\ lost' = TRUE
           \/ ~autoApprove /\ Goto(w, "bulk", After(j, t)) /\ UNCHANGED <<event, lost>>
  BY <1>2 DEF Bulk
<1>4. Todo(j) = <<"refund">> /\ t \in j.left
  BY <1>1, <1>2, <1>3 DEF Todo, Candidates
<1>5. PICK next : next = After(j, t)
  OBVIOUS
<1>6. /\ t \in Tickets /\ next \in Jobs /\ next.left = j.left \ {t} /\ next.todo = <<>>
      /\ next.kinds = <<"refund">> /\ next.why = "TRIP_CANCELLED"
  BY <1>0, <1>1, <1>2, <1>4, <1>5, NextRow, OtherKinds
<1>7. PICK c \in Rows : c = <<"TRIP_CANCELLED", "refund">>
  BY RowFacts DEF Reasons, Kinds
<1>8. given' = [given EXCEPT ![t][c] = @ + 1]
  BY <1>1, <1>2, <1>3, <1>4, <1>7, OtherKinds DEF Give
<1>9. /\ given' \in [Tickets -> [Rows -> Nat]] /\ given'[t][c] = given[t][c] + 1
      /\ \A u \in Tickets, d \in Rows : u # t \/ d # c => given'[u][d] = given[u][d]
  BY <1>0, <1>6, <1>8, GiveFacts DEF TypeOK
<1>10. \A u \in Tickets, r \in Reasons \ {"TRIP_CANCELLED"}, k \in Kinds :
          given'[u][<<r, k>>] = given[u][<<r, k>>]
  BY <1>7, <1>9, RowFacts
<1>11. \A u \in Tickets : given[u][c] \in Nat /\ given'[u][c] \in Nat
  BY <1>0, <1>9 DEF TypeOK
<1>12. \A u \in Tickets : given'[u][c] >= given[u][c] /\ (u = t => given'[u][c] > 0)
  BY <1>9, <1>11
<1>13. trip.status = "CANCELLED"
  BY <1>0 DEF Apart
<1>14. CASE autoApprove
  <2>1. Goto(w, "idle", NoJob) /\ event' = [event EXCEPT !.status = "DELIVERED"] /\ lost' = TRUE
    BY <1>3, <1>14 DEF Delivered, Finish
  <2>2. pc'[w] = "idle" /\ NoJob \in Jobs
    BY <2>1, Moves, JobFields
  <2>3. Carries(w)'
    BY <2>2 DEF Carries
  <2>4. event' \in [type : {None, "trip.cancel", "trip.cancelled"},
                    status : {"none", "PENDING", "DELIVERED"}, tries : 0 .. MaxDeliveries]
    BY <1>0, <2>1 DEF TypeOK
  <2>5. DeliveredCoversTrip'
    BY <2>1 DEF DeliveredCoversTrip
  <2> QED BY <1>0, <1>7, <1>9, <1>10, <1>12, <1>13, <2>1, <2>2, <2>3, <2>4, <2>5, Aside
<1>15. CASE ~autoApprove
  <2>1. Goto(w, "bulk", next) /\ event' = event /\ lost' = lost
    BY <1>3, <1>5, <1>15
  <2>2. pc'[w] = "bulk" /\ job'[w] = next
    BY <1>6, <2>1, Moves
  <2>3. Carries(w)'
    BY <1>6, <2>2, OtherKinds DEF Carries
  <2>4. \A u \in due \cap Active : u \in next.left \/ given'[u][c] > 0
    <3> TAKE u \in due \cap Active
    <3>1. u \in Tickets /\ (u \in j.left \/ given[u][c] > 0)
      BY <1>0, <1>2, <1>7 DEF Covers, Active
    <3>2. u = t \/ u \in next.left \/ given[u][c] > 0
      BY <1>6, <3>1
    <3> QED BY <1>11, <1>12, <3>1, <3>2
  <2>5. DeliveredCoversTrip'
    <3>1. \A u \in Tickets : given[u][c] > 0 => given'[u][c] > 0
      BY <1>11, <1>12
    <3> QED BY <1>0, <1>7, <2>1, <3>1 DEF Covers, DeliveredCoversTrip, Active
  <2> QED BY <1>0, <1>6, <1>7, <1>9, <1>10, <1>12, <1>13, <2>1, <2>3, <2>4, <2>5, Aside DEF TypeOK
<1> QED BY <1>14, <1>15

\* A ticket is paid or cancelled: it enters no list and leaves no debt.
LEMMA TicketSteps ==
    ASSUME IInv, NEW t \in Tickets, Confirm(t) \/ Cancel(t)
    PROVE  IInv'
<1>0. /\ UNCHANGED <<trip, given, event, autoApprove, pc, job, declared, due, lost>>
      /\ TypeOK /\ Covers /\ Apart
  BY DEF IInv, Confirm, Cancel, hist
<1>1. /\ ticket' \in [Tickets -> {"PENDING_PAYMENT", "CONFIRMED", "CANCELLED"}]
      /\ ticket'[t] # "PENDING_PAYMENT" /\ \A u \in Tickets \ {t} : ticket'[u] = ticket[u]
      /\ ticket'[t] = "CONFIRMED" => ticket[t] = "PENDING_PAYMENT"
  BY <1>0 DEF TypeOK, Confirm, Cancel
<1>2. TypeOK' /\ (job \in [Workers -> Jobs])'
  BY <1>0, <1>1 DEF TypeOK, IInv
<1>3. \A u \in Workers : Carries(u)'
  BY <1>0, OthersCarry
<1>4. DelayAccount' /\ OneTransitLoop'
  BY <1>0 DEF IInv, DelayAccount, Promising, Promises, OneTransitLoop, InTransit
<1>5. Apart'
  BY <1>0 DEF Apart
<1>6. \A u \in (due \cap Active)' : u \in due \cap Active
  BY <1>0, <1>1 DEF Covers, Active
<1>7. Covers'
  BY <1>0, <1>1, <1>6 DEF Covers, DeliveredCoversTrip, TypeOK
<1> QED BY <1>2, <1>3, <1>4, <1>5, <1>7 DEF IInv

-----------------------------------------------------------------------------
(* The loops of the incidents *)

\* A promise that is kept is one promise less.
LEMMA PromiseKept ==
    ASSUME IInv, NEW w \in Workers, NEW t \in Tickets, NEW k \in Kinds, NEW c \in Rows, c = <<"MAJOR_DELAY", k>>,
           given' = [given EXCEPT ![t][c] = @ + 1], declared' = declared,
           Promises(w, t, k), ~Promises(w, t, k)',
           \A u \in Workers, q \in Tickets, l \in Kinds : Promises(u, q, l)' => Promises(u, q, l)
    PROVE  DelayAccount'
<1> SUFFICES ASSUME NEW q \in Tickets, NEW l \in Kinds
             PROVE  /\ IsFiniteSet(Promising(q, l)')
                    /\ given'[q][<<"MAJOR_DELAY", l>>] + Cardinality(Promising(q, l)') <= declared'
  BY DEF DelayAccount
<1>1. PICK P, Q : P = Promising(q, l) /\ Q = Promising(q, l)'
  OBVIOUS
<1>2. Q \subseteq P
  BY <1>1 DEF Promising
<1>3. PICK d \in Rows : d = <<"MAJOR_DELAY", l>>
  BY RowFacts DEF Reasons
<1>4. /\ given' \in [Tickets -> [Rows -> Nat]] /\ given'[t][c] = given[t][c] + 1
      /\ \A u \in Tickets, e \in Rows : u # t \/ e # c => given'[u][e] = given[u][e]
  BY GiveFacts DEF IInv, TypeOK
<1>5. PICK n \in Nat : n = given[q][d]
  BY DEF IInv, TypeOK
<1>6. IsFiniteSet(P) /\ n + Cardinality(P) <= declared /\ declared \in Nat
  BY <1>1, <1>3, <1>5 DEF IInv, DelayAccount, TypeOK
<1>7. CASE q = t /\ l = k
  <2>1. w \in P /\ Q \subseteq P \ {w}
    BY <1>1, <1>2, <1>7 DEF Promising
  <2>2. /\ Cardinality(P) \in Nat /\ IsFiniteSet(Q) /\ Cardinality(Q) \in Nat
        /\ Cardinality(Q) + 1 <= Cardinality(P)
    BY <1>6, <2>1, Counting
  <2>3. given'[q][d] = n + 1
    BY <1>3, <1>4, <1>5, <1>7
  <2>4. n + 1 + Cardinality(Q) <= declared
    BY <1>6, <2>2
  <2> QED BY <1>1, <1>3, <2>2, <2>3, <2>4
<1>8. CASE ~(q = t /\ l = k)
  <2>1. /\ Cardinality(P) \in Nat /\ IsFiniteSet(Q) /\ Cardinality(Q) \in Nat
        /\ Cardinality(Q) <= Cardinality(P)
    BY <1>2, <1>6, Counting
  <2>2. given'[q][d] = n
    BY <1>3, <1>4, <1>5, <1>8
  <2>3. n + Cardinality(Q) <= declared
    BY <1>6, <2>1
  <2> QED BY <1>1, <1>3, <2>1, <2>2, <2>3
<1> QED BY <1>7, <1>8

\* The next row of an incident.
LEMMA CompensateStep ==
    ASSUME IInv, NEW w \in Workers, Compensate(w)
    PROVE  IInv'
<1>0. /\ UNCHANGED <<trip, ticket, event, autoApprove, declared, due, lost>>
      /\ TypeOK /\ DelayAccount /\ OneTransitLoop /\ Apart /\ Covers
      /\ job[w] \in Jobs /\ pc[w] = "loop" /\ Carries(w)
  BY DEF IInv, Compensate, hist
<1>1. PICK j : j = job[w]
  OBVIOUS
<1>2. /\ j \in Jobs /\ j.kinds # <<>>
      /\ j.todo # <<>> => j.on \in Tickets
      /\ j.why \in {"INCIDENT_IN_TRANSIT", "MAJOR_DELAY"}
      /\ j.why = "INCIDENT_IN_TRANSIT" => j.kinds = <<"refund">> /\ j.todo = <<>>
  BY <1>0, <1>1 DEF Carries
<1>3. PICK t \in Candidates(j) :
        /\ Give(j, t)
        /\ Goto(w, "idle", NoJob) \/ Goto(w, "loop", After(j, t))
  BY <1>1 DEF Compensate, Finish
<1>4. PICK next, k : next = After(j, t) /\ k = Head(Todo(j))
  OBVIOUS
<1>5. /\ t \in Tickets /\ Todo(j) \in DelayKinds /\ Todo(j) # <<>> /\ k \in Kinds
      /\ next \in Jobs /\ next.left = j.left \ {t} /\ next.on = t
      /\ next.todo = Tail(Todo(j)) /\ next.kinds = j.kinds /\ next.why = j.why
  BY <1>2, <1>4, NextRow
<1>6. PICK c \in Rows : c = <<j.why, k>>
  BY <1>2, <1>5, RowFacts DEF Reasons
<1>7. given' = [given EXCEPT ![t][c] = @ + 1]
  BY <1>3, <1>4, <1>6 DEF Give
<1>8. /\ given' \in [Tickets -> [Rows -> Nat]] /\ given'[t][c] = given[t][c] + 1
      /\ \A u \in Tickets, d \in Rows : u # t \/ d # c => given'[u][d] = given[u][d]
  BY <1>0, <1>5, <1>7, GiveFacts DEF TypeOK
<1>9. PICK step \in {"idle", "loop"}, n \in Jobs :
        Goto(w, step, n) /\ (step = "loop" => n = next)
  BY <1>3, <1>4, <1>5, JobFields
<1>10. /\ pc' \in [Workers -> {"idle", "tx", "loop", "bulk"}] /\ job' \in [Workers -> Jobs]
       /\ pc'[w] = step /\ job'[w] = n
       /\ \A u \in Workers \ {w} : pc'[u] = pc[u] /\ job'[u] = job[u]
  BY <1>9, Moves
<1>11. TypeOK'
  BY <1>0, <1>8, <1>10 DEF TypeOK
<1>12. Carries(w)'
  <2>1. CASE step = "idle"
    BY <1>10, <2>1 DEF Carries
  <2>2. CASE step = "loop"
    <3>1. pc'[w] = "loop" /\ job'[w] = next
      BY <1>9, <1>10, <2>2
    <3>2. j.why = "INCIDENT_IN_TRANSIT" => next.todo = <<>>
      BY <1>2, <1>5, OtherKinds DEF Todo
    <3> QED BY <1>2, <1>5, <3>1, <3>2 DEF Carries
  <2> QED BY <1>9, <2>1, <2>2
<1>13. \A u \in Workers : Carries(u)'
  BY <1>0, <1>10, <1>12, OthersCarry
<1>14. /\ Elems(Todo(j)) = {k} \cup Elems(next.todo) /\ k \notin Elems(next.todo)
       /\ Elems(<<>>) = {}
  BY <1>4, <1>5, KindFacts, OtherKinds
<1>15. \A u \in Workers, q \in Tickets, l \in Kinds : Promises(u, q, l)' => Promises(u, q, l)
  <2> SUFFICES ASSUME NEW u \in Workers, NEW q \in Tickets, NEW l \in Kinds, Promises(u, q, l)'
               PROVE  Promises(u, q, l)
    OBVIOUS
  <2>1. CASE u # w
    BY <1>10, <2>1 DEF Promises
  <2>2. CASE u = w
    <3>1. /\ pc'[w] = "loop" /\ job'[w] = next /\ j.why = "MAJOR_DELAY"
          /\ (q \in next.left /\ l \in Elems(next.kinds)) \/ (q = next.on /\ l \in Elems(next.todo))
      BY <1>5, <1>9, <1>10, <2>2 DEF Promises
    <3>2. (q \in j.left /\ l \in Elems(j.kinds)) \/ (q = t /\ l \in Elems(Todo(j)))
      BY <1>5, <1>14, <3>1
    <3>3. (q \in j.left /\ l \in Elems(j.kinds)) \/ (q = j.on /\ l \in Elems(j.todo))
      BY <1>3, <3>2 DEF Todo, Candidates
    <3> QED BY <1>0, <1>1, <2>2, <3>1, <3>3 DEF Promises
  <2> QED BY <2>1, <2>2
<1>16. DelayAccount'
  <2>1. CASE j.why = "MAJOR_DELAY"
    <3>1. Promises(w, t, k)
      BY <1>0, <1>1, <1>3, <1>14, <2>1 DEF Promises, Todo, Candidates
    <3>2. ~Promises(w, t, k)'
      BY <1>5, <1>9, <1>10, <1>14 DEF Promises
    <3> QED BY <1>0, <1>5, <1>6, <1>7, <1>15, <2>1, <3>1, <3>2, PromiseKept
  <2>2. CASE j.why = "INCIDENT_IN_TRANSIT"
    <3>1. \A q \in Tickets, l \in Kinds : given'[q][<<"MAJOR_DELAY", l>>] = given[q][<<"MAJOR_DELAY", l>>]
      BY <1>6, <1>8, <2>2, RowFacts DEF Reasons
    <3> QED BY <1>0, <1>8, <1>15, <3>1, AccountKept DEF TypeOK
  <2> QED BY <1>2, <2>1, <2>2
<1>17. OneTransitLoop'
  <2>1. \A u \in Workers : InTransit(u)' => InTransit(u)
    BY <1>0, <1>1, <1>5, <1>9, <1>10 DEF InTransit
  <2>2. CASE j.why = "MAJOR_DELAY"
    <3>1. \A q \in Tickets, l \in Kinds :
            given'[q][<<"INCIDENT_IN_TRANSIT", l>>] = given[q][<<"INCIDENT_IN_TRANSIT", l>>]
      BY <1>6, <1>8, <2>2, RowFacts DEF Reasons
    <3>2. \A u \in Workers : InTransit(u)' => job'[u] = job[u]
      BY <1>1, <1>10, <2>1, <2>2 DEF InTransit
    <3> QED BY <1>0, <2>1, <3>1, <3>2 DEF OneTransitLoop, Kinds
  <2>3. CASE j.why = "INCIDENT_IN_TRANSIT"
    <3>1. InTransit(w) /\ trip.status = "CANCELLED_IN_TRANSIT"
      BY <1>0, <1>1, <2>3 DEF InTransit, OneTransitLoop
    <3>2. k = "refund" /\ t \in j.left
      BY <1>2, <1>3, <1>4, <2>3, OtherKinds DEF Todo, Candidates
    <3>3. given[t][c] = 0 /\ given'[t][c] = 1
      BY <1>0, <1>1, <1>5, <1>6, <1>8, <2>3, <3>1, <3>2 DEF OneTransitLoop
    <3>4. \A u \in Workers : InTransit(u)' => u = w /\ job'[u].left = j.left \ {t}
      BY <1>0, <1>5, <1>9, <1>10, <2>1, <3>1 DEF OneTransitLoop, InTransit
    <3>5. ASSUME NEW q \in Tickets
          PROVE  /\ given'[q][<<"INCIDENT_IN_TRANSIT", "refund">>] <= 1
                 /\ \A u \in Workers : InTransit(u)' /\ q \in job'[u].left =>
                       given'[q][<<"INCIDENT_IN_TRANSIT", "refund">>] = 0
      <4>1. CASE q = t
        BY <1>6, <2>3, <3>2, <3>3, <3>4, <4>1
      <4>2. CASE q # t
        <5>1. given'[q][c] = given[q][c]
          BY <1>8, <4>2
        <5> QED BY <1>0, <1>1, <1>6, <2>3, <3>1, <3>2, <3>4, <4>2, <5>1 DEF OneTransitLoop
      <4> QED BY <4>1, <4>2
    <3> QED BY <1>0, <3>1, <3>4, <3>5 DEF OneTransitLoop
  <2> QED BY <1>2, <2>2, <2>3
<1>18. \A q \in Tickets : given'[q][<<"TRIP_CANCELLED", "refund">>] = given[q][<<"TRIP_CANCELLED", "refund">>]
  BY <1>2, <1>6, <1>8, RowFacts DEF Reasons, Kinds
<1>19. Apart'
  <2>1. trip.status \notin Before
    BY <1>0 DEF Apart
  <2>2. \A u \in Workers : pc'[u] = "bulk" => pc[u] = "bulk"
    BY <1>9, <1>10
  <2> QED BY <1>0, <1>18, <2>1, <2>2 DEF Apart
<1>20. Covers'
  <2>1. \A u \in Workers : pc'[u] = "bulk" => pc[u] = "bulk" /\ job'[u] = job[u]
    BY <1>9, <1>10
  <2>2. Active \subseteq Tickets
    BY DEF Active
  <2> QED BY <1>0, <1>18, <2>1, <2>2 DEF Covers, DeliveredCoversTrip, Active
<1> QED BY <1>10, <1>11, <1>13, <1>16, <1>17, <1>19, <1>20 DEF IInv

-----------------------------------------------------------------------------
(* The transition of the trip *)

\* What a transition does, and the loop it may begin.
LEMMA CommitFacts ==
    ASSUME IInv, NEW w \in Workers, CommitTrip(w)
    PROVE  /\ \E x \in Edges : /\ x[1] = trip.status /\ x[2] = job[w].do
                               /\ trip'.status = x[3] /\ trip'.ver = trip.ver + 1
           /\ trip' \in [status : TripStates, ver : Nat]
           /\ \E step \in {"idle", "loop"}, n \in Jobs :
                 /\ Goto(w, step, n)
                 /\ step = "loop" =>
                       /\ n.left = Active /\ n.kinds # <<>> /\ n.todo = <<>>
                       /\ \/ /\ job[w].do = "CANCEL_IN_TRANSIT" /\ n.why = "INCIDENT_IN_TRANSIT"
                               /\ n.kinds = <<"refund">>
                          \/ job[w].do = "DECLARE_MAJOR_DELAY" /\ n.why = "MAJOR_DELAY"
<1>0. pc[w] = "tx" /\ Carries(w) /\ trip.ver = job[w].ver /\ TypeOK
  BY DEF CommitTrip, Current, IInv
<1>1. job[w].was = trip.status /\ trip.ver \in Nat
  BY <1>0 DEF Carries, TypeOK
<1>2. PICK x \in Edges : /\ x[1] = job[w].was /\ x[2] = job[w].do
                         /\ trip' = [status |-> x[3], ver |-> trip.ver + 1]
  BY DEF CommitTrip
<1>3. x[3] \in TripStates
  BY EdgeFacts
<1>4. trip'.status = x[3] /\ trip'.ver = trip.ver + 1 /\ trip' \in [status : TripStates, ver : Nat]
  BY <1>1, <1>2, <1>3
<1>5. ASSUME NEW k \in DelayKinds, NEW why \in {"INCIDENT_IN_TRANSIT", "MAJOR_DELAY"}, Fan(w, k, why),
             \/ job[w].do = "CANCEL_IN_TRANSIT" /\ why = "INCIDENT_IN_TRANSIT" /\ k \in {<<"refund">>, <<>>}
             \/ job[w].do = "DECLARE_MAJOR_DELAY" /\ why = "MAJOR_DELAY"
      PROVE  \E step \in {"idle", "loop"}, n \in Jobs :
                 /\ Goto(w, step, n)
                 /\ step = "loop" =>
                       /\ n.left = Active /\ n.kinds # <<>> /\ n.todo = <<>>
                       /\ \/ /\ job[w].do = "CANCEL_IN_TRANSIT" /\ n.why = "INCIDENT_IN_TRANSIT"
                             /\ n.kinds = <<"refund">>
                          \/ job[w].do = "DECLARE_MAJOR_DELAY" /\ n.why = "MAJOR_DELAY"
  <2>1. CASE Goto(w, "idle", NoJob)
    BY <2>1, JobFields
  <2>2. CASE k # <<>> /\ Goto(w, "loop", Loop(k, why))
    <3>1. PICK n : n = Loop(k, why)
      OBVIOUS
    <3>2. /\ n \in Jobs /\ n.left = Active /\ n.kinds = k /\ n.todo = <<>> /\ n.why = why
      BY <3>1, LoopFacts DEF Reasons
    <3> QED BY <1>5, <2>2, <3>1, <3>2
  <2> QED BY <1>5, <2>1, <2>2 DEF Fan, Finish
<1>6. CASE job[w].do = "CANCEL_IN_TRANSIT" /\ \E k \in TransitKinds : Fan(w, k, "INCIDENT_IN_TRANSIT")
  BY <1>1, <1>2, <1>4, <1>5, <1>6, OtherKinds DEF TransitKinds
<1>7. CASE job[w].do = "DECLARE_MAJOR_DELAY" /\ \E k \in DelayKinds : Fan(w, k, "MAJOR_DELAY")
  BY <1>1, <1>2, <1>4, <1>5, <1>7
<1>8. CASE Goto(w, "idle", NoJob)
  BY <1>1, <1>2, <1>4, <1>8, JobFields
<1> QED BY <1>6, <1>7, <1>8 DEF CommitTrip, Finish

\* The transaction of a transition, with the loop that follows it.
LEMMA CommitStep ==
    ASSUME IInv, NEW w \in Workers, CommitTrip(w)
    PROVE  IInv'
<1>0. /\ UNCHANGED <<ticket, given, autoApprove, lost>>
      /\ TypeOK /\ DelayAccount /\ OneTransitLoop /\ Apart /\ Covers
      /\ pc[w] = "tx" /\ MaxDeliveries \in Nat
  BY TripIncidentAssumption DEF IInv, CommitTrip
<1>1. PICK x \in Edges : /\ x[1] = trip.status /\ x[2] = job[w].do
                         /\ trip'.status = x[3] /\ trip'.ver = trip.ver + 1
  BY CommitFacts
<1>2. PICK step \in {"idle", "loop"}, n \in Jobs :
        /\ Goto(w, step, n)
        /\ step = "loop" =>
              /\ n.left = Active /\ n.kinds # <<>> /\ n.todo = <<>>
              /\ \/ /\ job[w].do = "CANCEL_IN_TRANSIT" /\ n.why = "INCIDENT_IN_TRANSIT"
                    /\ n.kinds = <<"refund">>
                 \/ job[w].do = "DECLARE_MAJOR_DELAY" /\ n.why = "MAJOR_DELAY"
  BY CommitFacts
<1>3. /\ pc' \in [Workers -> {"idle", "tx", "loop", "bulk"}] /\ job' \in [Workers -> Jobs]
      /\ pc'[w] = step /\ job'[w] = n
      /\ \A u \in Workers \ {w} : pc'[u] = pc[u] /\ job'[u] = job[u]
  BY <1>2, Moves
<1>4. /\ trip.status \notin {"CANCELLED", "CANCELLED_IN_TRANSIT"}
      /\ trip'.status = "CANCELLED" <=> job[w].do = "CANCEL"
      /\ trip'.status = "CANCELLED_IN_TRANSIT" <=> job[w].do = "CANCEL_IN_TRANSIT"
      /\ trip'.status \in Before => trip.status \in Before
      /\ job[w].do \in {"CANCEL_IN_TRANSIT", "DECLARE_MAJOR_DELAY"} => trip'.status \notin Before
  BY <1>1, EdgeFacts
<1>5. /\ job[w].do = "CANCEL" => /\ event' = [type |-> EventType(job[w].by), status |-> "PENDING", tries |-> 0]
                                 /\ due' = Active
      /\ job[w].do # "CANCEL" => event' = event /\ due' = due
      /\ declared' = IF job[w].do = "DECLARE_MAJOR_DELAY" THEN declared + 1 ELSE declared
  BY DEF CommitTrip
<1>6. TypeOK'
  <2>1. event' \in [type : {None, "trip.cancel", "trip.cancelled"},
                    status : {"none", "PENDING", "DELIVERED"}, tries : 0 .. MaxDeliveries]
    BY <1>0, <1>5 DEF TypeOK, EventType
  <2>2. declared' \in Nat /\ due' \subseteq Tickets
    BY <1>0, <1>5 DEF TypeOK, Active
  <2>3. trip' \in [status : TripStates, ver : Nat]
    BY CommitFacts
  <2> QED BY <1>0, <1>3, <2>1, <2>2, <2>3 DEF TypeOK
<1>7. Carries(w)'
  BY <1>2, <1>3 DEF Carries
<1>8. \A u \in Workers : Carries(u)'
  BY <1>1, <1>3, <1>7, OthersCarry
<1>9. \A u \in Workers \ {w}, t \in Tickets, k \in Kinds : Promises(u, t, k)' => Promises(u, t, k)
  BY <1>3 DEF Promises
<1>10. DelayAccount'
  <2>1. CASE step = "loop" /\ n.why = "MAJOR_DELAY"
    <3>1. declared' = declared + 1 /\ declared \in Nat
      BY <1>0, <1>2, <1>5, <2>1 DEF TypeOK
    <3>2. SUFFICES ASSUME NEW t \in Tickets, NEW k \in Kinds
                   PROVE  /\ IsFiniteSet(Promising(t, k)')
                          /\ given'[t][<<"MAJOR_DELAY", k>>] + Cardinality(Promising(t, k)') <= declared'
      BY DEF DelayAccount
    <3>3. PICK P, Q : P = Promising(t, k) /\ Q = Promising(t, k)'
      OBVIOUS
    <3>4. Q \subseteq P \cup {w}
      BY <1>9, <3>3 DEF Promising
    <3>5. PICK m \in Nat : m = given[t][<<"MAJOR_DELAY", k>>] /\ m = given'[t][<<"MAJOR_DELAY", k>>]
      BY <1>0, RowFacts DEF TypeOK, Reasons
    <3>6. IsFiniteSet(P) /\ m + Cardinality(P) <= declared
      BY <1>0, <3>3, <3>5 DEF DelayAccount
    <3>7. /\ Cardinality(P) \in Nat /\ IsFiniteSet(Q) /\ Cardinality(Q) \in Nat
          /\ Cardinality(Q) <= Cardinality(P) + 1
      BY <3>4, <3>6, Counting
    <3>8. m + Cardinality(Q) <= declared'
      BY <3>1, <3>6, <3>7
    <3> QED BY <3>3, <3>5, <3>7, <3>8
  <2>2. CASE ~(step = "loop" /\ n.why = "MAJOR_DELAY")
    <3>1. \A t \in Tickets, k \in Kinds : ~Promises(w, t, k)'
      BY <1>3, <2>2 DEF Promises
    <3>2. declared \in Nat /\ declared' \in Nat /\ declared <= declared'
      BY <1>0, <1>5 DEF TypeOK
    <3> QED BY <1>0, <1>9, <3>1, <3>2, AccountKept DEF TypeOK
  <2> QED BY <2>1, <2>2
<1>11. OneTransitLoop'
  <2>1. \A u \in Workers : InTransit(u)' => u = w /\ trip'.status = "CANCELLED_IN_TRANSIT"
    BY <1>0, <1>2, <1>3, <1>4 DEF InTransit, OneTransitLoop
  <2>2. \A t \in Tickets, k \in Kinds : given'[t][<<"INCIDENT_IN_TRANSIT", k>>] = 0
    BY <1>0, <1>4 DEF OneTransitLoop
  <2>3. "refund" \in Kinds
    BY DEF Kinds
  <2> QED BY <2>1, <2>2, <2>3 DEF OneTransitLoop
<1>12. Apart'
  <2>1. trip'.status \in Before => \A u \in Workers : pc'[u] # "loop"
    BY <1>0, <1>2, <1>3, <1>4 DEF Apart
  <2>2. trip'.status # "CANCELLED" => event'.status = "none"
    BY <1>0, <1>4, <1>5 DEF Apart
  <2>3. \A u \in Workers : pc'[u] # "bulk"
    BY <1>0, <1>2, <1>3, <1>4 DEF Apart
  <2> QED BY <1>0, <1>4, <2>1, <2>2, <2>3 DEF Apart
<1>13. Covers'
  <2>1. \A u \in Workers : pc'[u] # "bulk"
    BY <1>0, <1>2, <1>3, <1>4 DEF Apart
  <2>2. event'.status # "DELIVERED"
    BY <1>0, <1>4, <1>5 DEF Apart
  <2>3. \A t \in due' : ticket[t] # "PENDING_PAYMENT"
    BY <1>0, <1>5 DEF Covers, Active
  <2> QED BY <1>0, <2>1, <2>2, <2>3 DEF Covers, DeliveredCoversTrip
<1> QED BY <1>3, <1>6, <1>8, <1>10, <1>11, <1>12, <1>13 DEF IInv

-----------------------------------------------------------------------------
(* The theorems *)

\* A trip begins with nothing given and nobody at work.
LEMMA InvInit == Init => IInv
<1> SUFFICES ASSUME Init PROVE IInv
  OBVIOUS
<1>0. /\ \A t \in Tickets, r \in Reasons, k \in Kinds : given[t][<<r, k>>] = 0
      /\ {"INCIDENT_IN_TRANSIT", "MAJOR_DELAY", "TRIP_CANCELLED"} = Reasons /\ "refund" \in Kinds
  BY RowFacts DEF Init, Reasons, Kinds
<1>1. trip.status \in {x[1] : x \in Edges}
  BY DEF Init
<1>2. trip.status \notin {"CANCELLED", "CANCELLED_IN_TRANSIT"} /\ trip.status \in TripStates /\ trip.ver = 0
  BY <1>1, EdgeFacts DEF Init
<1>3. TypeOK
  <2>1. trip \in [status : TripStates, ver : Nat]
    BY <1>2 DEF Init
  <2>2. given \in [Tickets -> [Rows -> Nat]]
    BY DEF Init
  <2>3. event \in [type : {None, "trip.cancel", "trip.cancelled"},
                   status : {"none", "PENDING", "DELIVERED"}, tries : 0 .. MaxDeliveries]
    BY TripIncidentAssumption DEF Init
  <2>4. ticket \in [Tickets -> {"PENDING_PAYMENT", "CONFIRMED", "CANCELLED"}]
    BY DEF Init
  <2> QED BY <2>1, <2>2, <2>3, <2>4 DEF Init, TypeOK
<1>4. job \in [Workers -> Jobs] /\ \A w \in Workers : pc[w] = "idle"
  BY JobFields DEF Init
<1>5. \A w \in Workers : Carries(w)
  BY <1>4 DEF Carries
<1>6. DelayAccount
  <2> SUFFICES ASSUME NEW t \in Tickets, NEW k \in Kinds
               PROVE  /\ IsFiniteSet(Promising(t, k))
                      /\ given[t][<<"MAJOR_DELAY", k>>] + Cardinality(Promising(t, k)) <= declared
    BY DEF DelayAccount
  <2>1. Promising(t, k) = {}
    BY <1>4 DEF Promising, Promises
  <2>2. IsFiniteSet({}) /\ Cardinality({}) = 0
    BY FS_EmptySet
  <2>3. given[t][<<"MAJOR_DELAY", k>>] = 0 /\ declared = 0
    BY <1>0 DEF Init
  <2> QED BY <2>1, <2>2, <2>3
<1>7. OneTransitLoop
  BY <1>0, <1>4 DEF OneTransitLoop, InTransit
<1>8. Apart
  BY <1>0, <1>4 DEF Apart, Init
<1>9. Covers
  BY <1>4 DEF Covers, DeliveredCoversTrip, Init
<1> QED BY <1>3, <1>4, <1>5, <1>6, <1>7, <1>8, <1>9 DEF IInv

\* Every step keeps the invariant.
LEMMA InvStep == IInv /\ [Next]_vars => IInv'
<1> SUFFICES ASSUME IInv, [Next]_vars PROVE IInv'
  OBVIOUS
<1>1. CASE UNCHANGED vars
  <2>1. UNCHANGED <<trip, ticket, given, event, autoApprove, pc, job, declared, due, lost>>
    BY <1>1 DEF vars, hist
  <2>2. TypeOK' /\ (job \in [Workers -> Jobs])'
    BY <2>1 DEF IInv, TypeOK
  <2>3. \A u \in Workers : Carries(u)'
    BY <2>1, OthersCarry
  <2>4. DelayAccount' /\ OneTransitLoop' /\ Apart'
    BY <2>1 DEF IInv, DelayAccount, Promising, Promises, OneTransitLoop, InTransit, Apart
  <2>5. Covers'
    BY <2>1 DEF IInv, Covers, DeliveredCoversTrip, Active
  <2> QED BY <2>2, <2>3, <2>4, <2>5 DEF IInv
<1>2. ASSUME NEW w \in Workers,
             \/ \E a \in Verbs, by \in Routes \cup {"incident"} : ReadTrip(w, a, by)
             \/ BulkDone(w) \/ BulkError(w) \/ Fail(w)
      PROVE  IInv'
  BY <1>2, PlainSteps
<1>3. ASSUME NEW w \in Workers, CommitTrip(w) \/ Compensate(w) \/ Deliver(w) \/ Bulk(w) PROVE IInv'
  BY <1>3, CommitStep, CompensateStep, DeliverStep, BulkStep
<1>4. ASSUME NEW t \in Tickets, Confirm(t) \/ Cancel(t) PROVE IInv'
  BY <1>4, TicketSteps
<1> QED BY <1>1, <1>2, <1>3, <1>4 DEF Next

(* The inductive invariant, for any number of dispatchers and deliveries. *)
THEOREM Invariance == Spec => []IInv
  BY InvInit, InvStep, PTL DEF Spec

(* The tables and the requests in flight keep their types. *)
THEOREM TypeCorrect == Spec => []TypeOK
<1>1. IInv => TypeOK
  BY DEF IInv
<1> QED BY <1>1, Invariance, PTL

(* A trip cancelled on its way compensates each ticket once, and no incident pays a ticket
   that the listener of the cancellation refunds. *)
THEOREM IncidentTheorem == Spec => []IncidentRefundOnce
<1>1. IInv => IncidentRefundOnce
  <2> SUFFICES ASSUME IInv, NEW t \in Tickets
               PROVE  /\ given[t][<<"INCIDENT_IN_TRANSIT", "refund">>] <= 1
                      /\ given[t][<<"TRIP_CANCELLED", "refund">>] > 0 =>
                           \A k \in Kinds :
                             given[t][<<"INCIDENT_IN_TRANSIT", k>>] + given[t][<<"MAJOR_DELAY", k>>] = 0
    BY DEF IncidentRefundOnce, Kinds
  <2>1. given[t][<<"INCIDENT_IN_TRANSIT", "refund">>] <= 1
    BY DEF IInv, OneTransitLoop
  <2>2. given[t][<<"TRIP_CANCELLED", "refund">>] > 0 => trip.status \in Before
    BY DEF IInv, Apart, Before
  <2> QED BY <2>1, <2>2 DEF IInv, Apart
<1> QED BY <1>1, Invariance, PTL

(* A ticket has at most one row of each kind for each declared delay. *)
THEOREM DelayTheorem == Spec => []DelayPaidPerDeclaration
<1>1. IInv => DelayPaidPerDeclaration
  <2> SUFFICES ASSUME IInv, NEW t \in Tickets, NEW k \in Kinds
               PROVE  given[t][<<"MAJOR_DELAY", k>>] <= declared
    BY DEF DelayPaidPerDeclaration, Kinds
  <2>1. /\ IsFiniteSet(Promising(t, k)) /\ declared \in Nat
        /\ given[t][<<"MAJOR_DELAY", k>>] + Cardinality(Promising(t, k)) <= declared
    BY DEF IInv, DelayAccount, TypeOK
  <2>2. Cardinality(Promising(t, k)) \in Nat /\ given[t][<<"MAJOR_DELAY", k>>] \in Nat
    BY <2>1, FS_CardinalityType, RowFacts DEF IInv, TypeOK, Reasons
  <2> QED BY <2>1, <2>2
<1> QED BY <1>1, Invariance, PTL

(* A delivery that ended without an error has refunded every ticket it owes. *)
THEOREM CoverTheorem == Spec => []DeliveredCoversTrip
<1>1. IInv => DeliveredCoversTrip
  BY DEF IInv, Covers
<1> QED BY <1>1, Invariance, PTL

(* The trip walks its blueprint, one version per transition, for any number of dispatchers
   on old snapshots (WorkflowEngine.transition, step 4b). *)
THEOREM BlueprintTheorem == Spec => BlueprintRespected
<1>1. IInv /\ [Next]_vars =>
        [trip' # trip => /\ trip'.ver = trip.ver + 1
                         /\ \E x \in Edges : x[1] = trip.status /\ x[3] = trip'.status]_vars
  <2> SUFFICES ASSUME IInv, Next, trip' # trip
               PROVE  /\ trip'.ver = trip.ver + 1
                      /\ \E x \in Edges : x[1] = trip.status /\ x[3] = trip'.status
    OBVIOUS
  <2>1. ASSUME NEW w \in Workers,
               \/ \E a \in Verbs, by \in Routes \cup {"incident"} : ReadTrip(w, a, by)
               \/ Compensate(w) \/ Deliver(w) \/ Bulk(w) \/ BulkDone(w) \/ BulkError(w) \/ Fail(w)
        PROVE  trip' = trip
    <3>1. CASE \E a \in Verbs, by \in Routes \cup {"incident"} : ReadTrip(w, a, by)
      BY <3>1 DEF ReadTrip
    <3>2. CASE Compensate(w) \/ Deliver(w) \/ Fail(w)
      BY <3>2 DEF Compensate, Deliver, Fail
    <3>3. CASE Bulk(w) \/ BulkDone(w) \/ BulkError(w)
      BY <3>3 DEF Bulk, BulkDone, BulkError
    <3> QED BY <2>1, <3>1, <3>2, <3>3
  <2>2. ASSUME NEW t \in Tickets, Confirm(t) \/ Cancel(t) PROVE trip' = trip
    BY <2>2 DEF Confirm, Cancel
  <2>3. PICK w \in Workers : CommitTrip(w)
    BY <2>1, <2>2 DEF Next
  <2> QED BY <2>3, CommitFacts
<1> QED BY <1>1, Invariance, PTL DEF Spec, BlueprintRespected
=============================================================================
