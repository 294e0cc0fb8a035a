------------------------------ MODULE Delivery ------------------------------
(***************************************************************************)
(* What the outbox promises to those who publish and to those who          *)
(* subscribe: a row whose signature does not hold reaches nobody, a row is *)
(* delivered once every subscriber has completed for it, a sound row is    *)
(* given up only after enough dispatches have failed, and a row that was   *)
(* settled never waits again.  At least once, in no order: a subscriber    *)
(* may hear of a row again, also after it was delivered or given up.  No   *)
(* pods, batches or copies here: Outbox implements it.                     *)
(***************************************************************************)
EXTENDS Naturals

CONSTANTS Rows, Handlers, MaxRetries

VARIABLES
    fate,      \* fate[e]    : "absent", "PENDING", "DELIVERED" or "DEAD"
    sound,     \* sound[e]   : its signature holds
    heard,     \* heard[e]   : subscribers that have completed for it
    failures   \* failures[e]: dispatches of it that failed

deliveryVars == <<fate, sound, heard, failures>>

DInit ==
    /\ fate = [e \in Rows |-> "absent"]
    /\ sound \in [Rows -> BOOLEAN]
    /\ heard = [e \in Rows |-> {}]
    /\ failures = [e \in Rows |-> 0]

\* A publication, or the replay of a dead letter, which copies a row that may be unsound.
Enqueue(e) ==
    /\ fate[e] = "absent"
    /\ fate' = [fate EXCEPT ![e] = "PENDING"]
    /\ \E ok \in BOOLEAN : sound' = [sound EXCEPT ![e] = ok]
    /\ UNCHANGED <<heard, failures>>

Hear(e, done) ==
    /\ fate[e] # "absent" /\ sound[e]
    /\ heard' = [heard EXCEPT ![e] = @ \cup done]
    /\ UNCHANGED <<fate, sound, failures>>

Deliver(e) ==
    /\ fate[e] # "absent" /\ sound[e]
    /\ heard[e] = Handlers
    /\ fate' = [fate EXCEPT ![e] = "DELIVERED"]
    /\ UNCHANGED <<sound, heard, failures>>

FailOnce(e) ==
    /\ fate[e] # "absent" /\ sound[e]
    /\ failures' = [failures EXCEPT ![e] = @ + 1]
    /\ UNCHANGED <<fate, sound, heard>>

\* The failure that was one too many.
GiveUp(e) ==
    /\ fate[e] # "absent" /\ sound[e]
    /\ failures[e] + 1 >= MaxRetries
    /\ failures' = [failures EXCEPT ![e] = @ + 1]
    /\ fate' = [fate EXCEPT ![e] = "DEAD"]
    /\ UNCHANGED <<sound, heard>>

Condemn(e) ==
    /\ fate[e] # "absent" /\ ~sound[e]
    /\ fate' = [fate EXCEPT ![e] = "DEAD"]
    /\ UNCHANGED <<sound, heard, failures>>

DNext ==
    \E e \in Rows :
        \/ Enqueue(e) \/ Deliver(e) \/ FailOnce(e) \/ GiveUp(e) \/ Condemn(e)
        \/ \E done \in SUBSET Handlers : Hear(e, done)

DSpec == DInit /\ [][DNext]_deliveryVars
=============================================================================
