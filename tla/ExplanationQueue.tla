--------------------------- MODULE ExplanationQueue ---------------------------
(***************************************************************************)
(* Explanations on their way to the server: the submit button              *)
(* (ui/explanation_input_view.rs) writes a row and spawns a task that      *)
(* sends it at once, the minute loop (platform/sync/event_sync.rs,         *)
(* retry_pending_explanations) sends again whatever rows are still there   *)
(* (data/local/explanations_repo.rs), and the local segment is marked      *)
(* SUBMITTED (data/local/idle_segments_repo.rs).                           *)
(*                                                                         *)
(* A row has no employee: the immediate request goes out in the name of    *)
(* who pressed the button, a retry in the name of who is logged in when    *)
(* the cycle begins.  author is history.                                   *)
(***************************************************************************)
EXTENDS Integers, FiniteSetsExt

CONSTANTS
    Employees,      \* the users who log in on this PC
    NoUser,         \* nobody
    Segments,       \* the segments there are to explain
    Authors,        \* bound: the users who ever explain anything
    MaxRows,        \* bound: rows ever written
    Batch,          \* the LIMIT of pending_batch
    Withdraws,      \* whether the company may withdraw a type that is in use
    MaxFaults,      \* bound: lost requests and failing statements
    MaxStops        \* bound: crashes and quits

ASSUME UsersAssumption == NoUser \notin Employees /\ Authors \subseteq Employees
ASSUME BoundsAssumption ==
    /\ MaxRows \in Nat
    /\ Batch \in Nat \ {0}
    /\ MaxFaults \in Nat
    /\ MaxStops \in Nat
ASSUME WithdrawsAssumption == Withdraws \in BOOLEAN

Users == Employees \cup {NoUser}
Ids == 1 .. MaxRows

VARIABLES
    row,        \* the table explanations, by id
    next,       \* the next AUTOINCREMENT id
    author,     \* history: who wrote each row
    submitted,  \* the segments whose explanation_status is SUBMITTED here
    session,    \* AppState.session
    form,       \* the UI thread between the INSERT and the spawn: an id, or 0
    direct,     \* the task that sends a row at once
    retry,      \* the minute loop
    late,       \* requests given up by their sender that may still arrive
    known,      \* under whom the server knows a segment
    stored,     \* the explanations the server has: row and employee
    refused,    \* the rows the server has refused
    faults, stops

table == <<row, next, author, submitted>>
tasks == <<form, direct, retry>>
server == <<known, stored, refused>>
vars == <<table, session, tasks, late, server, faults, stops>>

Free == [segment |-> NoUser, status |-> "FREE"]
Unsent == {i \in Ids : row[i].status \in {"PENDING", "FAILED"}}
Asleep == [pc |-> "asleep", as |-> NoUser, todo |-> {}]

Fail == faults > 0 /\ faults' = faults - 1

Init ==
    /\ row = [i \in Ids |-> Free]
    /\ next = 1
    /\ author = [i \in Ids |-> NoUser]
    /\ submitted = {}
    /\ session = NoUser
    /\ form = 0
    /\ direct = [i \in Ids |-> "none"]
    /\ retry = Asleep
    /\ late = {}
    /\ known = [s \in Segments |-> NoUser]
    /\ stored = {}
    /\ refused = {}
    /\ faults = MaxFaults
    /\ stops = MaxStops

(***************************************************************************)
(* The server                                                              *)
(***************************************************************************)

\* A segment belongs to the employee it was first reported under, by an event
\* or by the explanation itself, which carries what is needed to insert it.
Accepts(i, e) == known[row[i].segment] \in {NoUser, e}

Store(i, e) ==
    /\ Accepts(i, e)
    /\ known' = [known EXCEPT ![row[i].segment] = e]
    /\ stored' = stored \cup {<<i, e>>}
    /\ UNCHANGED refused

\* 403 for the segment of another employee, 400 for a type that was withdrawn.
Refuse(i, e) ==
    /\ ~Accepts(i, e) \/ Withdraws
    /\ refused' = refused \cup {i}
    /\ UNCHANGED <<known, stored>>

\* The events of a segment are delivered, in the name of who is logged in.
SegmentReported(s) ==
    /\ session # NoUser
    /\ known[s] = NoUser
    /\ known' = [known EXCEPT ![s] = session]
    /\ UNCHANGED <<table, session, tasks, late, stored, refused, faults, stops>>

LateArrives(i, e) ==
    /\ <<i, e>> \in late
    /\ late' = late \ {<<i, e>>}
    /\ Store(i, e) \/ Refuse(i, e)
    /\ UNCHANGED <<table, session, tasks, faults, stops>>

(***************************************************************************)
(* The rows                                                                *)
(***************************************************************************)

\* delete; its callers go on if it fails.
Deleted(i) == row' = [row EXCEPT ![i].status = "DELETED"]
Delete(i) ==
    \/ Deleted(i) /\ UNCHANGED faults
    \/ Fail /\ UNCHANGED row

\* Mutant: the row is written back whether or not it is still there.
MarkFailedUpserts(i) == row' = [row EXCEPT ![i].status = "FAILED"]

\* mark_failed: an UPDATE that finds no row changes nothing.
MarkFailed(i) ==
    row' = IF i \in Unsent THEN [row EXCEPT ![i].status = "FAILED"] ELSE row

\* The rows that are there and older than one of them.
Older(i) == {j \in Unsent : j < i}

\* Mutant: a row that failed once is not taken up again.
PendingOnly ==
    {i \in Unsent : row[i].status = "PENDING" /\ Cardinality(Older(i)) < Batch}

\* pending_batch: the oldest rows that are there, at most Batch of them.
PendingBatch == {i \in Unsent : Cardinality(Older(i)) < Batch}

(***************************************************************************)
(* submit, on the UI thread                                                *)
(***************************************************************************)

\* The form has a segment to explain: one of the session's employee from the local
\* table, or any from the list, where it may still be open to explanation although it
\* is SUBMITTED here, and which may still be the list of the employee before.
FormShows(s) == s \in Segments /\ session \in Authors

\* Mutant: the segment is marked while the form opens, before the INSERT.
SubmitMarksFirst(s) ==
    /\ FormShows(s)
    /\ form = 0
    /\ next <= MaxRows
    /\ submitted' = submitted \cup {s}
    /\ UNCHANGED <<row, next, author, session, tasks, late, server, faults, stops>>

\* The INSERT.  One that fails leaves nothing behind.
SubmitInsert(s) ==
    /\ FormShows(s)
    /\ form = 0
    /\ next <= MaxRows
    /\ row' = [row EXCEPT ![next] = [segment |-> s, status |-> "PENDING"]]
    /\ author' = [author EXCEPT ![next] = session]
    /\ next' = next + 1
    /\ form' = next
    /\ UNCHANGED <<submitted, session, direct, retry, late, server, faults, stops>>

\* mark_submitted, whose error is dropped, and the task that sends the row.
SubmitMark ==
    /\ form # 0
    /\ \/ submitted' = submitted \cup {row[form].segment} /\ UNCHANGED faults
       \/ Fail /\ UNCHANGED submitted
    /\ direct' = [direct EXCEPT ![form] = "spawned"]
    /\ form' = 0
    /\ UNCHANGED <<row, next, author, session, retry, late, server, stops>>

(***************************************************************************)
(* The immediate request                                                   *)
(***************************************************************************)

Goto(i, pc) == direct' = [direct EXCEPT ![i] = pc]

\* Only that somebody is logged in is looked at, not who.
DirectSend(i) ==
    /\ direct[i] = "spawned"
    /\ Goto(i, IF session = NoUser THEN "done" ELSE "sent")
    /\ UNCHANGED <<table, session, form, retry, late, server, faults, stops>>

\* An error is only shown: the row stays as it is, for the minute loop.
DirectServed(i) ==
    /\ direct[i] = "sent"
    /\ \/ Store(i, author[i]) /\ Goto(i, "accepted")
       \/ Refuse(i, author[i]) /\ Goto(i, "done")
    /\ UNCHANGED <<table, session, form, retry, late, faults, stops>>

DirectAccepted(i) ==
    /\ direct[i] = "accepted"
    /\ Delete(i)
    /\ Goto(i, "done")
    /\ UNCHANGED <<next, author, submitted, session, form, retry, late, server, stops>>

\* No answer in time: the request, or only its answer, was lost or is late.
DirectLost(i) ==
    /\ direct[i] \in {"sent", "accepted"}
    /\ Fail
    /\ late' = IF direct[i] = "sent" THEN late \cup {<<i, author[i]>>} ELSE late
    /\ Goto(i, "done")
    /\ UNCHANGED <<table, session, form, retry, server, stops>>

(***************************************************************************)
(* retry_pending_explanations, every minute                                *)
(***************************************************************************)

\* The rows are sent by age.
Current == Min(retry.todo)

\* The session is read first, the rows after it.
RetryTick ==
    /\ retry.pc = "asleep"
    /\ session # NoUser
    /\ retry' = [retry EXCEPT !.pc = "read", !.as = session]
    /\ UNCHANGED <<table, session, form, direct, late, server, faults, stops>>

RetryRead ==
    /\ retry.pc = "read"
    /\ \/ retry' = [retry EXCEPT !.pc = "send", !.todo = PendingBatch] /\ UNCHANGED faults
       \/ Fail /\ retry' = Asleep
    /\ UNCHANGED <<table, session, form, direct, late, server, stops>>

\* Mutant: nobody looks whether there is a row left.
RetrySendAnyway ==
    /\ retry.pc = "send"
    /\ retry' = [retry EXCEPT !.pc = "sent"]
    /\ UNCHANGED <<table, session, form, direct, late, server, faults, stops>>

RetrySend ==
    /\ retry.pc = "send"
    /\ retry' = IF retry.todo = {} THEN Asleep ELSE [retry EXCEPT !.pc = "sent"]
    /\ UNCHANGED <<table, session, form, direct, late, server, faults, stops>>

RetryServed ==
    /\ retry.pc = "sent"
    /\ LET i == Current IN
       \/ Store(i, retry.as) /\ retry' = [retry EXCEPT !.pc = "accepted"]
       \/ Refuse(i, retry.as) /\ retry' = [retry EXCEPT !.pc = "refused"]
    /\ UNCHANGED <<table, session, form, direct, late, faults, stops>>

\* On to the next row, whatever became of this one.
NextRow == retry' = [retry EXCEPT !.pc = "send", !.todo = @ \ {Current}]

\* The row is deleted when the server has it, and when it refuses for good.
RetryAnswered ==
    /\ retry.pc \in {"accepted", "refused"}
    /\ Delete(Current)
    /\ NextRow
    /\ UNCHANGED <<next, author, submitted, session, form, direct, late, server, stops>>

\* Mutant: every error counts as a refusal for good.
LostDeletes ==
    /\ retry.pc \in {"sent", "accepted", "refused"}
    /\ Fail
    /\ Deleted(Current)
    /\ NextRow
    /\ UNCHANGED <<next, author, submitted, session, form, direct, late, server, stops>>

RetryLost ==
    /\ retry.pc \in {"sent", "accepted", "refused"}
    /\ Fail
    /\ MarkFailed(Current)
    /\ late' = IF retry.pc = "sent" THEN late \cup {<<Current, retry.as>>}
               ELSE late
    /\ NextRow
    /\ UNCHANGED <<next, author, submitted, session, form, direct, server, stops>>

(***************************************************************************)
(* Users and the process                                                   *)
(***************************************************************************)

Login(u) ==
    /\ session = NoUser
    /\ session' = u
    /\ UNCHANGED <<table, tasks, late, server, faults, stops>>

\* The forced logout of another thread may fall between the two steps of submit.
Logout ==
    /\ session # NoUser
    /\ session' = NoUser
    /\ UNCHANGED <<table, tasks, late, server, faults, stops>>

\* A crash or a quit: the rows and the requests already sent survive.
Stop ==
    /\ stops > 0
    /\ stops' = stops - 1
    /\ session' = NoUser
    /\ form' = 0
    /\ direct' = [i \in Ids |-> IF direct[i] = "none" THEN "none" ELSE "done"]
    /\ retry' = Asleep
    /\ late' = late \cup {<<i, author[i]>> : i \in {j \in Ids : direct[j] = "sent"}}
                    \cup IF retry.pc = "sent" THEN {<<Current, retry.as>>} ELSE {}
    /\ UNCHANGED <<table, server, faults>>

DirectStep(i) ==
    DirectSend(i) \/ DirectServed(i) \/ DirectAccepted(i)

RetryStep ==
    RetryTick \/ RetryRead \/ RetrySend \/ RetryServed \/ RetryAnswered

Next ==
    \/ \E u \in Employees : Login(u)
    \/ Logout \/ Stop
    \/ \E s \in Segments : SubmitInsert(s) \/ SegmentReported(s)
    \/ SubmitMark
    \/ \E i \in Ids : DirectStep(i) \/ DirectLost(i)
    \/ RetryStep \/ RetryLost
    \/ \E i \in Ids, e \in Employees : LateArrives(i, e)

Spec == Init /\ [][Next]_vars

\* The runtime polls its tasks, the minute timer fires, the UI thread ends its
\* callback; a request is answered or given up after its timeout.
Fairness ==
    /\ WF_vars(SubmitMark)
    /\ \A i \in Ids : WF_vars(DirectStep(i))
    /\ WF_vars(RetryStep)

FairSpec == Spec /\ Fairness

-----------------------------------------------------------------------------
(***************************************************************************)
(* Properties                                                              *)
(***************************************************************************)

Row == [segment : Segments \cup {NoUser},
        status : {"FREE", "PENDING", "FAILED", "DELETED"}]

\* Every variable has its type, ids are given out in order and never again, and
\* whatever is under way is about a row that was written.
TypeOK ==
    /\ row \in [Ids -> Row]
    /\ next \in 1 .. MaxRows + 1
    /\ author \in [Ids -> Users]
    /\ \A i \in Ids : i < next <=> row[i].status # "FREE"
    /\ \A i \in Ids : i < next => row[i].segment \in Segments /\ author[i] \in Employees
    /\ submitted \subseteq Segments
    /\ session \in Users
    /\ form \in 0 .. next - 1
    /\ direct \in [Ids -> {"none", "spawned", "sent", "accepted", "done"}]
    /\ \A i \in Ids : direct[i] # "none" => i < next
    /\ retry \in [pc : {"asleep", "read", "send", "sent", "accepted", "refused"},
                  as : Users, todo : SUBSET (1 .. next - 1)]
    /\ retry.pc # "asleep" => retry.as \in Employees
    /\ retry.pc \in {"sent", "accepted", "refused"} => retry.todo # {}
    /\ late \subseteq (1 .. next - 1) \X Employees
    /\ known \in [Segments -> Users]
    /\ stored \subseteq (1 .. next - 1) \X Employees
    /\ refused \subseteq 1 .. next - 1
    /\ faults \in Nat
    /\ stops \in Nat

Settled(i) == i \in refused \/ \E e \in Employees : <<i, e>> \in stored

\* "A failed POST stays PENDING here" (explanations_repo.rs): a row disappears
\* only when the server has the explanation or has refused it, whichever of the
\* two senders deleted it and whatever was lost, late or interrupted.
GoneIsSettled == \A i \in Ids : row[i].status = "DELETED" => Settled(i)

\* A segment that left the "to be explained" list of this PC has an explanation
\* that is still queued, or was settled: no crash or failing statement between
\* the two writes of submit takes a segment away without an explanation.
SubmittedIsBacked ==
    \A s \in submitted : \E i \in Ids :
        /\ row[i].segment = s
        /\ i \in Unsent \/ Settled(i)

\* The queue empties: if somebody stays logged in, every explanation written is
\* stored or refused in the end, and its row deleted, after lost answers, late
\* requests, failing statements and restarts.
WrittenIsSettled ==
    <>[](session # NoUser) =>
        \A i \in Ids : [](i \in Unsent => <>(row[i].status = "DELETED" /\ Settled(i)))

Handover == INSTANCE ExplanationHandover WITH
    written <- 1 .. next - 1,
    forgotten <- {i \in Ids : row[i].status = "DELETED"}

\* The two senders, their races included, implement the handover.
ImplementsHandover == Handover!Spec

=============================================================================
