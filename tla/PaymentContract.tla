--------------------------- MODULE PaymentContract ---------------------------
(***************************************************************************)
(* What the orchestrator promises of one payment to the modules that sell  *)
(* something for it: the customer is charged once, what the intent and its *)
(* events say of the money is true when they say it, and only money that   *)
(* was taken is sent back.  No calls, webhooks or cron jobs here, and no   *)
(* time: Payment implements it.                                            *)
(***************************************************************************)
EXTENDS Naturals

VARIABLES
    charges,   \* payments the provider was made to collect
    taken,     \* it has collected the money (and may have sent it back since)
    status,    \* PaymentIntent.status, "none" before it exists
    told,      \* outcomes announced to the subscribers
    repaying   \* it was asked to send money back

contractVars == <<charges, taken, status, told, repaying>>

\* Statuses that say the money was taken.
SaysTaken == {"SUCCEEDED", "PARTIALLY_REFUNDED", "REFUNDED"}
SaysNot == {"FAILED", "CANCELLED", "EXPIRED"}

CInit ==
    /\ charges = 0 /\ taken = FALSE
    /\ status = "none" /\ told = {} /\ repaying = FALSE

\* The provider may collect at once.
Charge ==
    /\ status # "none" /\ charges = 0
    /\ charges' = 1 /\ taken' \in BOOLEAN
    /\ UNCHANGED <<status, told, repaying>>

Collect ==
    /\ charges = 1
    /\ taken' = TRUE
    /\ UNCHANGED <<charges, status, told, repaying>>

\* The intent is created once.  A status may then replace any other, also one that was
\* final, but says no more than is true.
Say(s) ==
    /\ s = "CREATED" <=> status = "none"
    /\ s = "PROCESSING" => charges = 1
    /\ s \in SaysTaken => taken
    /\ status' = s
    /\ UNCHANGED <<charges, taken, told, repaying>>

Announce(outcome) ==
    /\ charges = 1
    /\ outcome = "SUCCEEDED" => taken
    /\ told' = told \cup {outcome}
    /\ UNCHANGED <<charges, taken, status, repaying>>

Repay ==
    /\ taken
    /\ repaying' = TRUE
    /\ UNCHANGED <<charges, taken, status, told>>

CNext ==
    \/ Charge \/ Collect \/ Repay
    \/ \E s \in {"CREATED", "PROCESSING"} \cup SaysTaken \cup SaysNot : Say(s)
    \/ \E outcome \in {"SUCCEEDED", "FAILED"} : Announce(outcome)

CSpec == CInit /\ [][CNext]_contractVars
=============================================================================
