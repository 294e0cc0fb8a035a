--------------------------- MODULE EntityHistory ---------------------------
(***************************************************************************)
(* What the workflow engine promises to the services that use it: each     *)
(* entity is a state machine driven by the tenant's transition table, its  *)
(* history is written in the same atomic step as its status, and an        *)
(* idempotency key is consumed by at most one transition of the database.  *)
(* No requests, locks or transactions here: WorkflowEngine implements it.  *)
(***************************************************************************)
EXTENDS Naturals, Sequences

CONSTANTS
    Entities,    \* rows of the workflow tables (Ticket, Refund, Trip, ...)
    InitState,   \* the status an entity is created with
    Config,      \* active WorkflowConfig rows: [from, action, to, perm]
    Tokens       \* idempotency keys, the random ones included

VARIABLES
    status,      \* status[e] : the entity's status column
    version,     \* version[e]: its optimistic-lock counter
    log          \* log[e]    : its WorkflowTransition rows, oldest first

hvars == <<status, version, log>>

Fresh(k) == \A e \in Entities : \A i \in 1..Len(log[e]) : log[e][i].key # k

HInit ==
    /\ status = [e \in Entities |-> InitState]
    /\ version = [e \in Entities |-> 0]
    /\ log = [e \in Entities |-> <<>>]

(* One transition, atomically: status, version and history together. *)
Apply(e, c, k) ==
    /\ c.from = status[e]
    /\ Fresh(k)
    /\ status' = [status EXCEPT ![e] = c.to]
    /\ version' = [version EXCEPT ![e] = @ + 1]
    /\ log' = [log EXCEPT ![e] =
                  Append(@, [from |-> c.from, action |-> c.action,
                             to |-> c.to, key |-> k])]

HNext == \E e \in Entities, c \in Config, k \in Tokens : Apply(e, c, k)

HSpec == HInit /\ [][HNext]_hvars
=============================================================================
