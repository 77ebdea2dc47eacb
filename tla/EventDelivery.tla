---------------------------- MODULE EventDelivery ----------------------------
(***************************************************************************)
(* What the event queue promises: events enter a log; the server learns of *)
(* the log in order, each event once, for one employee and for good; the   *)
(* agent believes an event delivered only when it is.  Senders, batches,   *)
(* retries and faults are absent; EventQueue implements it.                *)
(***************************************************************************)
EXTENDS Naturals, Sequences

CONSTANTS
    Employees,      \* the users an event may be attributed to
    NoUser,         \* "not delivered"
    EventTypes,     \* the types an event may have
    RejectedTypes,  \* the types the server refuses
    MaxRows         \* bound on the log

VARIABLES
    log,       \* the types of the events, in the order they happened
    delivered, \* for each position, the employee it is delivered for
    believed   \* the positions the agent believes delivered

abstractVars == <<log, delivered, believed>>

Positions == 1..MaxRows

Refused(i) == i \notin DOMAIN log \/ log[i] \in RejectedTypes

Init ==
    /\ log = <<>>
    /\ delivered = [i \in Positions |-> NoUser]
    /\ believed = {}

Happen(type) ==
    /\ Len(log) < MaxRows
    /\ log' = Append(log, type)
    /\ UNCHANGED <<delivered, believed>>

\* Some events are delivered at once, for one employee, but never one before
\* an earlier event that could be.
Deliver(user, ids) ==
    /\ \A j \in ids : \A i \in 1..j :
            i \in ids \/ Refused(i) \/ delivered[i] # NoUser
    /\ delivered' = [i \in Positions |->
            IF i \in ids /\ ~Refused(i) /\ delivered[i] = NoUser
            THEN user ELSE delivered[i]]
    /\ UNCHANGED <<log, believed>>

\* The agent may come to doubt again what it believed, never the converse.
Believe(ids) ==
    /\ \A i \in ids : delivered[i] # NoUser
    /\ believed' = ids
    /\ UNCHANGED <<log, delivered>>

Next ==
    \/ \E type \in EventTypes : Happen(type)
    \/ \E user \in Employees, ids \in SUBSET Positions : Deliver(user, ids)
    \/ \E ids \in SUBSET Positions : Believe(ids)

Spec == Init /\ [][Next]_abstractVars

=============================================================================
