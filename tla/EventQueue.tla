----------------------------- MODULE EventQueue -----------------------------
(***************************************************************************)
(* The outgoing event queue of the agent: the SQLite table local_events    *)
(* (data/local/events_repo.rs), the once-a-minute sender and the senders   *)
(* spawned by flush_now (platform/sync/event_sync.rs), the operations that *)
(* enqueue (app start and quit, login, logout, the close of an idle        *)
(* segment) and, as an external party, the server's POST /events.          *)
(*                                                                         *)
(* A row is named by its autoincrement id, its index in rows.  A sender is *)
(* a task of the tokio runtime; every access to shared state is one step,  *)
(* so tasks, the UI and the idle detector interleave between them.         *)
(***************************************************************************)
EXTENDS Naturals, Sequences, FiniteSets

CONSTANTS
    Employees,      \* the users that may log in on this PC
    NoUser,         \* "no session"; for the server, "not stored"
    Senders,        \* tasks that may run flush_once at the same time
    Loop,           \* the sender that is event_sync::run
    BatchLimit,     \* intervals.max_events_per_batch
    RejectedTypes,  \* event types the server's CHECK constraint refuses
    MaxRows,        \* bound: rows the disk has room for
    MaxFaults,      \* bound: failing requests, replies and statements
    MaxStops        \* bound: crashes and quits

AppStarted == "APP_STARTED"
AppStopped == "APP_STOPPED"
LoginSuccess == "LOGIN_SUCCESS"
LogoutType == "LOGOUT"
IdleStarted == "IDLE_STARTED"
IdleEnded == "IDLE_ENDED"
EventTypes == {AppStarted, AppStopped, LoginSuccess, LogoutType,
               IdleStarted, IdleEnded}
SegmentTypes == {IdleStarted, IdleEnded}

ASSUME SendersAssumption == IsFiniteSet(Senders) /\ Loop \in Senders
ASSUME NoUserAssumption == NoUser \notin Employees
ASSUME BoundsAssumption == /\ BatchLimit \in Nat \ {0}
                           /\ MaxRows \in Nat
                           /\ MaxFaults \in Nat
                           /\ MaxStops \in Nat
ASSUME RejectedAssumption == RejectedTypes \subseteq EventTypes

VARIABLES
    life,       \* the process: "up", "quitting" (tray Quit seen) or "down"
    session,    \* AppState.session
    steps,      \* handlers caught between two of their writes
    rows,       \* the table local_events, in the order of its ids
    task,       \* what each sender is doing
    late,       \* requests whose sender gave up, that may still arrive
    server,     \* for each id, the employee it is stored for (or NoUser)
    refreshFor, \* whom the last request_refresh of the list was for
    faults,     \* failures still allowed
    stops       \* crashes and quits still allowed

vars == <<life, session, steps, rows, task, late, server, refreshFor,
          faults, stops>>
agentVars == <<life, session, steps>>

Users == Employees \cup {NoUser}
Ids == 1..MaxRows
Handlers == {"login", "logout", "segmentClose"}

IdleTask == [pc |-> "idle", user |-> NoUser, batch |-> {}, accepted |-> {}]

(***************************************************************************)
(* events_repo                                                             *)
(***************************************************************************)

\* The rows after INSERT of an event.  On a full disk the INSERT fails and
\* every caller drops the error.
Enqueued(type) ==
    IF Len(rows) < MaxRows
    THEN Append(rows, [type |-> type, status |-> "PENDING", retries |-> 0])
    ELSE rows

\* Mutant: a FAILED row is not picked up again.
PendingOnly == {i \in DOMAIN rows : rows[i].status = "PENDING"}

Unsent == {i \in DOMAIN rows : rows[i].status \in {"PENDING", "FAILED"}}

\* The members of S that have fewer than k members of S below them.
Oldest(S, k) == {i \in S : Cardinality({j \in S : j < i}) < k}

\* Mutant: ORDER BY id DESC.
NewestBatch == {i \in Unsent : Cardinality({j \in Unsent : j > i}) < BatchLimit}

\* WHERE sync_status IN ('PENDING','FAILED') ORDER BY id ASC LIMIT n
PendingBatch == Oldest(Unsent, BatchLimit)

\* Mutant: a status literal SyncStatus does not know.
MarkAccepted(ids) ==
    [i \in DOMAIN rows |->
        IF i \in ids THEN [rows[i] EXCEPT !.status = "ACCEPTED"] ELSE rows[i]]

\* Neither UPDATE looks at the status the row has when it runs.
MarkSuccess(ids) ==
    [i \in DOMAIN rows |->
        IF i \in ids THEN [rows[i] EXCEPT !.status = "SUCCESS"] ELSE rows[i]]

MarkFailed(ids) ==
    [i \in DOMAIN rows |->
        IF i \in ids
        THEN [rows[i] EXCEPT !.status = "FAILED", !.retries = @ + 1]
        ELSE rows[i]]

(***************************************************************************)
(* The server: stores an event once, for the employee of the first batch   *)
(* that carries it, and reports stored and already stored ids as accepted. *)
(* A batch is one transaction.                                             *)
(***************************************************************************)

Acceptable(i) == i \in DOMAIN rows /\ rows[i].type \notin RejectedTypes

Stored(user, batch) ==
    [i \in Ids |->
        IF i \in batch /\ Acceptable(i) /\ server[i] = NoUser
        THEN user ELSE server[i]]

(***************************************************************************)
(* Initial state: an installation that has just started.                   *)
(***************************************************************************)

Init ==
    /\ life = "down"
    /\ session = NoUser
    /\ steps = {}
    /\ rows = <<>>
    /\ task = [s \in Senders |-> IdleTask]
    /\ late = {}
    /\ server = [i \in Ids |-> NoUser]
    /\ refreshFor = NoUser
    /\ faults = MaxFaults
    /\ stops = MaxStops

Fail == faults > 0 /\ faults' = faults - 1

(***************************************************************************)
(* flush_once                                                              *)
(***************************************************************************)

\* The minute's sleep of event_sync::run is over.
Tick ==
    /\ life # "down"
    /\ task[Loop].pc = "idle"
    /\ task' = [task EXCEPT ![Loop].pc = "begun"]
    /\ UNCHANGED <<agentVars, rows, late, server, refreshFor, faults, stops>>

\* flush_once reads the session first; without one it returns.
CaptureSession(s) ==
    /\ task[s].pc = "begun"
    /\ task' = [task EXCEPT ![s] =
                  IF session = NoUser THEN IdleTask
                  ELSE [@ EXCEPT !.pc = "captured", !.user = session]]
    /\ UNCHANGED <<agentVars, rows, late, server, refreshFor, faults, stops>>

\* It then reads the batch, and returns when there is none; the request
\* leaves with the user captured before.
SendBatch(s) ==
    /\ task[s].pc = "captured"
    /\ task' = [task EXCEPT ![s] =
                  IF PendingBatch = {} THEN IdleTask
                  ELSE [@ EXCEPT !.pc = "sent", !.batch = PendingBatch]]
    /\ UNCHANGED <<agentVars, rows, late, server, refreshFor, faults, stops>>

\* The SELECT fails: flush_once gives up until the next cycle.
BatchUnreadable(s) ==
    /\ task[s].pc = "captured"
    /\ Fail
    /\ task' = [task EXCEPT ![s] = IdleTask]
    /\ UNCHANGED <<agentVars, rows, late, server, refreshFor, stops>>

\* The server handles a request its sender is still waiting for.
Serve(s) ==
    /\ task[s].pc = "sent"
    /\ server' = Stored(task[s].user, task[s].batch)
    /\ task' = [task EXCEPT ![s].pc = "served",
                            ![s].accepted = {i \in task[s].batch : Acceptable(i)}]
    /\ UNCHANGED <<agentVars, rows, late, refreshFor, faults, stops>>

\* The server handles a request whose sender timed out or died.
ServeLate(req) ==
    /\ req \in late
    /\ server' = Stored(req.user, req.batch)
    /\ late' = late \ {req}
    /\ UNCHANGED <<agentVars, rows, task, refreshFor, faults, stops>>

\* A batch with a segment event of which something was accepted asks for a
\* refresh of the explanation list, for the captured user.
RefreshAfter(s) ==
    refreshFor' =
        IF /\ \E i \in task[s].batch : rows[i].type \in SegmentTypes
           /\ task[s].accepted # {}
        THEN task[s].user ELSE refreshFor

\* Mutant: a 200 acknowledges the whole batch.
WholeBatch(s) == task[s].batch

\* The ids a 200 acknowledges.
AckedIds(s) == task[s].accepted

\* 200: the accepted ids become SUCCESS, the others are left as they are.
ReplyOk(s) ==
    /\ task[s].pc = "served"
    /\ rows' = MarkSuccess(AckedIds(s))
    /\ RefreshAfter(s)
    /\ task' = [task EXCEPT ![s] = IdleTask]
    /\ UNCHANGED <<agentVars, late, server, faults, stops>>

\* The same with an UPDATE that fails; its error is dropped.
ReplyOkUnmarked(s) ==
    /\ task[s].pc = "served"
    /\ Fail
    /\ RefreshAfter(s)
    /\ task' = [task EXCEPT ![s] = IdleTask]
    /\ UNCHANGED <<agentVars, rows, late, server, stops>>

\* The sender ends; a request the server has not handled may be lost or may
\* arrive later.
GivenUp(s) ==
    /\ late' = IF task[s].pc = "sent"
               THEN late \cup {[user |-> task[s].user, batch |-> task[s].batch]}
               ELSE late
    /\ task' = [task EXCEPT ![s] = IdleTask]
    /\ UNCHANGED <<agentVars, server, refreshFor, stops>>

\* An error or the 15 s timeout, before or after the server handled the
\* request: the whole batch becomes FAILED, whatever its rows are by now.
ReplyError(s) ==
    /\ task[s].pc \in {"sent", "served"}
    /\ Fail
    /\ rows' = MarkFailed(task[s].batch)
    /\ GivenUp(s)

\* The same with an UPDATE that fails: the rows stay as they are.
ReplyErrorUnmarked(s) ==
    /\ task[s].pc \in {"sent", "served"}
    /\ Fail
    /\ rows' = rows
    /\ GivenUp(s)

(***************************************************************************)
(* The operations that enqueue                                             *)
(***************************************************************************)

\* main: monitor::spawn_all records the start before anyone is logged in.
Start ==
    /\ life = "down"
    /\ life' = "up"
    /\ rows' = Enqueued(AppStarted)
    /\ UNCHANGED <<session, steps, task, late, server, refreshFor, faults, stops>>

\* finalize_session publishes the session ...
LoginSession(u) ==
    /\ life # "down"
    /\ session = NoUser
    /\ "login" \notin steps
    /\ session' = u
    /\ steps' = steps \cup {"login"}
    /\ UNCHANGED <<life, rows, task, late, server, refreshFor, faults, stops>>

\* ... and, several requests later, enqueues the login event, whether or not
\* that session is still there.
LoginEvent ==
    /\ "login" \in steps
    /\ rows' = Enqueued(LoginSuccess)
    /\ steps' = steps \ {"login"}
    /\ UNCHANGED <<life, session, task, late, server, refreshFor, faults, stops>>

\* user_service::logout enqueues LOGOUT while the session is still there ...
LogoutEvent ==
    /\ life # "down"
    /\ session # NoUser
    /\ "logout" \notin steps
    /\ rows' = Enqueued(LogoutType)
    /\ steps' = steps \cup {"logout"}
    /\ UNCHANGED <<life, session, task, late, server, refreshFor, faults, stops>>

\* ... and clears it after the credentials, the auth row and the caches.
LogoutSession ==
    /\ "logout" \in steps
    /\ session' = NoUser
    /\ steps' = steps \ {"logout"}
    /\ UNCHANGED <<life, rows, task, late, server, refreshFor, faults, stops>>

\* Clearing the auth row fails: logout returns early, LOGOUT is enqueued and
\* the session stays.
LogoutAborted ==
    /\ "logout" \in steps
    /\ Fail
    /\ steps' = steps \ {"logout"}
    /\ UNCHANGED <<life, session, rows, task, late, server, refreshFor, stops>>

\* finalize_segment_close enqueues the start of the segment ...
SegmentStartEvent ==
    /\ life # "down"
    /\ "segmentClose" \notin steps
    /\ rows' = Enqueued(IdleStarted)
    /\ steps' = steps \cup {"segmentClose"}
    /\ UNCHANGED <<life, session, task, late, server, refreshFor, faults, stops>>

\* ... then its end, and spawns a sender (one that is not running yet).
SegmentEndEvent(s) ==
    /\ "segmentClose" \in steps
    /\ s # Loop
    /\ task[s].pc = "idle"
    /\ rows' = Enqueued(IdleEnded)
    /\ task' = [task EXCEPT ![s].pc = "begun"]
    /\ steps' = steps \ {"segmentClose"}
    /\ UNCHANGED <<life, session, late, server, refreshFor, faults, stops>>

\* The tray's Quit: APP_STOPPED is recorded, then the window closes.
Quit ==
    /\ life = "up"
    /\ stops > 0
    /\ stops' = stops - 1
    /\ life' = "quitting"
    /\ rows' = Enqueued(AppStopped)
    /\ UNCHANGED <<session, steps, task, late, server, refreshFor, faults>>

\* The process ends, after Quit or by a crash: only the table survives, and
\* requests already sent may still reach the server.
Stop ==
    /\ \/ life = "quitting" /\ UNCHANGED stops
       \/ life = "up" /\ stops > 0 /\ stops' = stops - 1
    /\ life' = "down"
    /\ session' = NoUser
    /\ steps' = {}
    /\ task' = [s \in Senders |-> IdleTask]
    /\ late' = late \cup {[user |-> task[s].user, batch |-> task[s].batch] :
                            s \in {t \in Senders : task[t].pc = "sent"}}
    /\ refreshFor' = NoUser
    /\ UNCHANGED <<rows, server, faults>>

SenderStep(s) == CaptureSession(s) \/ SendBatch(s) \/ Serve(s) \/ ReplyOk(s)

SenderFault(s) == BatchUnreadable(s) \/ ReplyOkUnmarked(s) \/ ReplyError(s) \/ ReplyErrorUnmarked(s)

Next ==
    \/ Tick
    \/ \E s \in Senders : SenderStep(s) \/ SenderFault(s) \/ SegmentEndEvent(s)
    \/ \E req \in late : ServeLate(req)
    \/ Start \/ Quit \/ Stop
    \/ \E u \in Employees : LoginSession(u)
    \/ LoginEvent \/ LogoutEvent \/ LogoutSession \/ LogoutAborted
    \/ SegmentStartEvent

Spec == Init /\ [][Next]_vars

\* The runtime keeps polling its tasks and the minute timer keeps firing; a
\* request that does not fail is answered, and faults are finite.  Users,
\* restarts and late requests promise nothing.
Fairness ==
    /\ WF_vars(Tick)
    /\ \A s \in Senders : WF_vars(SenderStep(s))

FairSpec == Spec /\ Fairness

-----------------------------------------------------------------------------
(***************************************************************************)
(* Properties                                                              *)
(***************************************************************************)

Row == [type : EventTypes, status : {"PENDING", "SUCCESS", "FAILED"},
        retries : Nat]
Task == [pc : {"idle", "begun", "captured", "sent", "served"}, user : Users,
         batch : SUBSET Ids, accepted : SUBSET Ids]
Request == [user : Users, batch : SUBSET Ids]

\* Every variable has its type, and a row's id is within the table's bound.
TypeOK ==
    /\ life \in {"up", "quitting", "down"}
    /\ session \in Users
    /\ steps \subseteq Handlers
    /\ rows \in Seq(Row) /\ Len(rows) <= MaxRows
    /\ task \in [Senders -> Task]
    /\ late \subseteq Request
    /\ server \in [Ids -> Users]
    /\ refreshFor \in Users
    /\ faults \in Nat /\ stops \in Nat

IsStored(i) == server[i] # NoUser

\* No event is believed delivered that the server does not have: a row marked
\* SUCCESS by mark_success was stored, across retries, lost replies, failed
\* statements, concurrent flushes and restarts.
SuccessIsStored ==
    \A i \in DOMAIN rows : rows[i].status = "SUCCESS" => IsStored(i)

\* The server learns of events in the order they were enqueued: when it has an
\* event it has every earlier one it would accept.  An IDLE_ENDED never stands
\* there without its IDLE_STARTED, whichever sender carried it.
StoredInOrder ==
    \A j \in DOMAIN rows : IsStored(j) =>
        \A i \in 1..j : Acceptable(i) => IsStored(i)

\* The ids a reply will acknowledge are stored.
AckedAreStored ==
    \A s \in Senders : \A i \in task[s].accepted : i \in DOMAIN rows /\ IsStored(i)

\* Below a member of a batch, what the server would accept is in the batch or
\* stored.
IsPrefix(batch) ==
    /\ batch \subseteq DOMAIN rows
    /\ \A j \in batch : \A i \in 1..j :
            Acceptable(i) => i \in batch \/ IsStored(i)

\* A request is made in the name of an employee.
NamesUser(t) == t.pc \in {"captured", "sent", "served"} => t.user \in Employees

\* Why SuccessIsStored and StoredInOrder stay true: every batch under way, its
\* sender waiting or not, was read as a prefix of what is not delivered, and
\* what makes a row SUCCESS is a reply about stored events.
IInv ==
    /\ TypeOK
    /\ SuccessIsStored
    /\ StoredInOrder
    /\ AckedAreStored
    /\ \A s \in Senders : IsPrefix(task[s].batch) /\ NamesUser(task[s])
    /\ \A req \in late : IsPrefix(req.batch) /\ req.user \in Employees
    /\ \A i \in Ids : IsStored(i) => i \in DOMAIN rows

\* Once somebody stays logged in, every event the server accepts ends up
\* stored and stays SUCCESS: lifecycle and segment events are all delivered,
\* however the flushes, failures and restarts before fell out.
EventuallySettled ==
    <>[](session # NoUser) =>
        <>[](\A i \in DOMAIN rows : Acceptable(i) => rows[i].status = "SUCCESS")

\* "Lifecycle and PRESENCE events must be sent without fail ... the only
\* protective condition is that a session exists" (header of event_sync.rs).
LifecycleEventuallyStored ==
    <>[](session # NoUser) =>
        \A i \in Ids : (Acceptable(i) /\ rows[i].type \notin SegmentTypes)
                            ~> (server[i] # NoUser)

\* The queue implements its promise: events reach the server in order, once
\* each, are never attributed anew, and SUCCESS is only ever claimed of them.
Delivery == INSTANCE EventDelivery WITH
    log <- [i \in DOMAIN rows |-> rows[i].type],
    delivered <- server,
    believed <- {i \in DOMAIN rows : rows[i].status = "SUCCESS"}

ImplementsDelivery == Delivery!Spec

=============================================================================
