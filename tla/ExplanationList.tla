---------------------------- MODULE ExplanationList ----------------------------
(***************************************************************************)
(* The list of absences and explanations the server answers with, kept in  *)
(* the static CACHE of ui/explanation_list_view.rs.  Views ask for it      *)
(* frame by frame, the refresh button, a submitted explanation and the     *)
(* event queue ask again, a login stores what it fetched itself, logouts   *)
(* and logins clear it, and a submit marks its segment at once.            *)
(*                                                                         *)
(* The cache says for whom it was asked last (employee) and not whose list *)
(* it holds (items.of, which only the model knows), and one flag (loading) *)
(* stands for however many fetches are under way.                          *)
(***************************************************************************)
EXTENDS Naturals

CONSTANTS
    Employees,
    NoUser,
    Names,          \* the segments of an employee
    Fetches,        \* bound: fetches under way at once
    MaxChanges,     \* bound: segments reported to the server
    MaxFaults       \* bound: requests that fail

ASSUME UsersAssumption == NoUser \notin Employees
ASSUME NamesAssumption == {"idle", "refresh"} \cap Names = {}
ASSUME BoundsAssumption == MaxChanges \in Nat /\ MaxFaults \in Nat

Users == Employees \cup {NoUser}

VARIABLES
    session,    \* AppState.session
    cache,      \* CACHE
    fetch,      \* the fetches under way
    frame,      \* whose frame the UI is drawing, before it looks at the cache
    login,      \* the login task
    leaving,    \* a logout has ended the session and not yet cleared the cache
    submit,     \* the task that sends an explanation
    report,     \* for whom the event queue is about to ask for the list
    pending,    \* the server: the segments each employee has to explain
    changes, faults

tasks == <<fetch, frame, login, leaving, submit, report>>
vars == <<session, cache, tasks, pending, changes, faults>>

\* A list: whose it is and which of its segments need an explanation.
List == [of : Employees, needs : SUBSET Names]
NoList == [of |-> NoUser, needs |-> {}]
ListOf(e) == [of |-> e, needs |-> pending[e]]

EmptyCache == [items |-> NoList, loading |-> FALSE, error |-> FALSE, employee |-> NoUser]
Idle == [pc |-> "idle", of |-> NoUser, list |-> NoList]
NotSending == [pc |-> "idle", of |-> NoUser]

Fail == faults > 0 /\ faults' = faults - 1

Init ==
    /\ session = NoUser
    /\ cache = EmptyCache
    /\ fetch = [f \in Fetches |-> Idle]
    /\ frame = NoUser
    /\ login = Idle
    /\ leaving = FALSE
    /\ submit = NotSending
    /\ report = NoUser
    /\ pending = [e \in Employees |-> {}]
    /\ changes = MaxChanges
    /\ faults = MaxFaults

(***************************************************************************)
(* The cache                                                               *)
(***************************************************************************)

\* trigger_fetch: dropped while something is loading; a list asked for by
\* somebody else is thrown away.
TriggerFetch(e) ==
    IF cache.loading
    THEN UNCHANGED <<cache, fetch>>
    ELSE \E f \in Fetches :
            /\ fetch[f].pc = "idle"
            /\ fetch' = [fetch EXCEPT ![f] = [Idle EXCEPT !.pc = "sent", !.of = e]]
            /\ cache' = [items |-> IF cache.employee = e THEN cache.items ELSE NoList,
                         loading |-> TRUE, error |-> FALSE, employee |-> e]

\* ensure_loaded: there is nothing and nothing is coming, or what there is was
\* asked for by somebody else.
NeedsFetch(e) ==
    \/ cache.items # NoList /\ cache.employee # e
    \/ cache.items = NoList /\ ~cache.error /\ ~cache.loading

EnsureLoaded(e) == IF NeedsFetch(e) THEN TriggerFetch(e) ELSE UNCHANGED <<cache, fetch>>

\* mark_submitted_optimistic
Marked(e, n) ==
    IF cache.items.of = e THEN [cache EXCEPT !.items.needs = @ \ {n}] ELSE cache

\* store_response_for
Stored(list) == [items |-> list, loading |-> FALSE, error |-> FALSE, employee |-> list.of]

\* The server answers with the list as it is now.
FetchServed(f) ==
    /\ fetch[f].pc = "sent"
    /\ fetch' = [fetch EXCEPT ![f].pc = "answered", ![f].list = ListOf(fetch[f].of)]
    /\ UNCHANGED <<session, cache, frame, login, leaving, submit, report, pending, changes, faults>>

\* Mutant: an answer only fills a cache that has no list.
FetchFills(f) ==
    /\ fetch[f].pc = "answered"
    /\ cache' = [cache EXCEPT !.items = IF @ = NoList THEN fetch[f].list ELSE @,
                             !.loading = FALSE, !.error = FALSE]
    /\ fetch' = [fetch EXCEPT ![f] = Idle]
    /\ UNCHANGED <<session, frame, login, leaving, submit, report, pending, changes, faults>>

\* Mutant: the flag stays up.
FetchKeepsLoading(f) ==
    /\ fetch[f].pc = "answered"
    /\ cache' = [cache EXCEPT !.items = fetch[f].list, !.error = FALSE]
    /\ fetch' = [fetch EXCEPT ![f] = Idle]
    /\ UNCHANGED <<session, frame, login, leaving, submit, report, pending, changes, faults>>

\* An answer is stored whatever the cache has become meanwhile.
FetchStored(f) ==
    /\ fetch[f].pc = "answered"
    /\ cache' = [cache EXCEPT !.items = fetch[f].list, !.loading = FALSE, !.error = FALSE]
    /\ fetch' = [fetch EXCEPT ![f] = Idle]
    /\ UNCHANGED <<session, frame, login, leaving, submit, report, pending, changes, faults>>

\* Mutant: an error is only logged.
FetchFailsQuietly(f) ==
    /\ fetch[f].pc \in {"sent", "answered"}
    /\ Fail
    /\ fetch' = [fetch EXCEPT ![f] = Idle]
    /\ UNCHANGED <<session, cache, frame, login, leaving, submit, report, pending, changes>>

\* An error leaves the old list where it is.
FetchFails(f) ==
    /\ fetch[f].pc \in {"sent", "answered"}
    /\ Fail
    /\ cache' = [cache EXCEPT !.loading = FALSE, !.error = TRUE]
    /\ fetch' = [fetch EXCEPT ![f] = Idle]
    /\ UNCHANGED <<session, frame, login, leaving, submit, report, pending, changes>>

(***************************************************************************)
(* Views                                                                   *)
(***************************************************************************)

\* A frame of the status or the list view reads the session, then the cache.
FrameBegin ==
    /\ session # NoUser
    /\ frame = NoUser
    /\ NeedsFetch(session)
    /\ frame' = session
    /\ UNCHANGED <<session, cache, fetch, login, leaving, submit, report, pending, changes, faults>>

FrameEnsures ==
    /\ frame # NoUser
    /\ EnsureLoaded(frame)
    /\ frame' = NoUser
    /\ UNCHANGED <<session, login, leaving, submit, report, pending, changes, faults>>

\* Mutant: the button works without a session.
RefreshAnyway ==
    /\ ~cache.loading
    /\ TriggerFetch(session)
    /\ UNCHANGED <<session, frame, login, leaving, submit, report, pending, changes, faults>>

\* The refresh button, disabled while something is loading.
Refresh ==
    /\ session # NoUser
    /\ ~cache.loading
    /\ TriggerFetch(session)
    /\ UNCHANGED <<session, frame, login, leaving, submit, report, pending, changes, faults>>

(***************************************************************************)
(* Login and logout                                                        *)
(***************************************************************************)

\* start_login and kick_auto_login empty the cache before anything else.
LoginBegin(u) ==
    /\ session = NoUser
    /\ login.pc = "idle"
    /\ login' = [Idle EXCEPT !.pc = "auth", !.of = u]
    /\ cache' = EmptyCache
    /\ UNCHANGED <<session, fetch, frame, leaving, submit, report, pending, changes, faults>>

LoginSucceeds ==
    /\ login.pc = "auth"
    /\ session' = login.of
    /\ login' = [login EXCEPT !.pc = "sent"]
    /\ UNCHANGED <<cache, fetch, frame, leaving, submit, report, pending, changes, faults>>

\* The login itself fails, or only its request for the list: it is skipped.
LoginFails ==
    /\ login.pc \in {"auth", "sent", "answered"}
    /\ Fail
    /\ login' = Idle
    /\ UNCHANGED <<session, cache, fetch, frame, leaving, submit, report, pending, changes>>

LoginServed ==
    /\ login.pc = "sent"
    /\ login' = [login EXCEPT !.pc = "answered", !.list = ListOf(login.of)]
    /\ UNCHANGED <<session, cache, fetch, frame, leaving, submit, report, pending, changes, faults>>

\* finalize_session stores the list for its own user, whoever has the session.
LoginStores ==
    /\ login.pc = "answered"
    /\ cache' = Stored(login.list)
    /\ login' = Idle
    /\ UNCHANGED <<session, fetch, frame, leaving, submit, report, pending, changes, faults>>

\* The button or a forced logout: the session first, the cache after it.
LogoutSession ==
    /\ session # NoUser
    /\ ~leaving
    /\ session' = NoUser
    /\ leaving' = TRUE
    /\ UNCHANGED <<cache, fetch, frame, login, submit, report, pending, changes, faults>>

LogoutClear ==
    /\ leaving
    /\ cache' = EmptyCache
    /\ leaving' = FALSE
    /\ UNCHANGED <<session, fetch, frame, login, submit, report, pending, changes, faults>>

(***************************************************************************)
(* Changes at the server, and who asks for the list after them             *)
(***************************************************************************)

\* What there is to explain, for the server or for a list that may be out of date.
Explainable(n) == n \in pending[session] \/ (cache.items.of = session /\ n \in cache.items.needs)

\* An explanation is submitted: the segment is marked in the list at once.
Submit(n) ==
    /\ session # NoUser
    /\ submit.pc = "idle"
    /\ Explainable(n)
    /\ cache' = Marked(session, n)
    /\ submit' = [pc |-> n, of |-> session]
    /\ UNCHANGED <<session, fetch, frame, login, leaving, report, pending, changes, faults>>

\* The server has it, or refuses it, or there is no answer.
SubmitServed(n) ==
    /\ submit.pc = n
    /\ \/ pending' = [pending EXCEPT ![submit.of] = @ \ {n}]
       \/ UNCHANGED pending
    /\ submit' = [submit EXCEPT !.pc = "refresh"]
    /\ UNCHANGED <<session, cache, fetch, frame, login, leaving, report, changes, faults>>

\* The session ended before the task began: nothing is sent, nor asked for.
SubmitDropped(n) ==
    /\ submit.pc = n
    /\ session = NoUser
    /\ submit' = NotSending
    /\ UNCHANGED <<session, cache, fetch, frame, login, leaving, report, pending, changes, faults>>

\* request_refresh, for the employee of the submit.
SubmitRefreshes ==
    /\ submit.pc = "refresh"
    /\ TriggerFetch(submit.of)
    /\ submit' = NotSending
    /\ UNCHANGED <<session, frame, login, leaving, report, pending, changes, faults>>

\* The event queue delivers a new segment, then asks for the list.
Reported(n) ==
    /\ session # NoUser
    /\ report = NoUser
    /\ n \notin pending[session]
    /\ changes > 0
    /\ changes' = changes - 1
    /\ pending' = [pending EXCEPT ![session] = @ \cup {n}]
    /\ report' = session
    /\ UNCHANGED <<session, cache, fetch, frame, login, leaving, submit, faults>>

ReportRefreshes ==
    /\ report # NoUser
    /\ TriggerFetch(report)
    /\ report' = NoUser
    /\ UNCHANGED <<session, frame, login, leaving, submit, pending, changes, faults>>

FetchStep(f) == FetchServed(f) \/ FetchStored(f)
LoginStep == LoginSucceeds \/ LoginServed \/ LoginStores
SubmitStep == (\E n \in Names : SubmitServed(n)) \/ SubmitRefreshes

Next ==
    \/ \E f \in Fetches : FetchStep(f) \/ FetchFails(f)
    \/ FrameBegin \/ FrameEnsures \/ Refresh
    \/ \E u \in Employees : LoginBegin(u)
    \/ LoginStep \/ LoginFails
    \/ LogoutSession \/ LogoutClear
    \/ \E n \in Names : Submit(n) \/ SubmitDropped(n) \/ Reported(n)
    \/ SubmitStep \/ ReportRefreshes

Spec == Init /\ [][Next]_vars

\* The runtime polls its tasks, a view is drawn every second, a logout that was
\* called runs to its end.  Users and the server's changes have no fairness.
Fairness ==
    /\ \A f \in Fetches : WF_vars(FetchStep(f))
    /\ WF_vars(FrameBegin) /\ WF_vars(FrameEnsures)
    /\ WF_vars(LoginStep)
    /\ WF_vars(LogoutClear)
    /\ WF_vars(SubmitStep)
    /\ WF_vars(ReportRefreshes)

FairSpec == Spec /\ Fairness

-----------------------------------------------------------------------------
(***************************************************************************)
(* Properties                                                              *)
(***************************************************************************)

Lists == List \cup {NoList}
Request(pcs) == [pc : {"idle"} \cup pcs, of : Users, list : Lists]

\* Every variable has its type; a request under way is somebody's, and what it
\* has been answered with is that employee's list.
TypeOK ==
    /\ session \in Users
    /\ cache \in [items : Lists, loading : BOOLEAN, error : BOOLEAN, employee : Users]
    /\ fetch \in [Fetches -> Request({"sent", "answered"})]
    /\ \A f \in Fetches : fetch[f].pc # "idle" => fetch[f].of \in Employees
    /\ \A f \in Fetches : fetch[f].pc = "answered" => fetch[f].list.of = fetch[f].of
    /\ frame \in Users
    /\ login \in Request({"auth", "sent", "answered"})
    /\ login.pc # "idle" => login.of \in Employees
    /\ login.pc = "answered" => login.list.of = login.of
    /\ leaving \in BOOLEAN
    /\ submit \in [pc : {"idle", "refresh"} \cup Names, of : Users]
    /\ submit.pc # "idle" => submit.of \in Employees
    /\ report \in Users
    /\ pending \in [Employees -> SUBSET Names]
    /\ changes \in Nat
    /\ faults \in Nat

\* The flag is never left up: whatever clears, logins and other fetches did to
\* the cache meanwhile, "loading" means that a fetch is under way which will
\* take it down.  A flag left up would disable refreshing for good.
LoadingHasFetch == cache.loading => \E f \in Fetches : fetch[f].pc # "idle"

\* Whoever is logged in gets a list or an error message, even after logouts and
\* logins have cleared the cache under fetches of before.
ViewIsServed ==
    session # NoUser ~> (cache.items # NoList \/ cache.error \/ session = NoUser)

\* If somebody stays logged in, submits nothing more and goes on pressing
\* "refresh", the list ends up as the server has it: late answers, lists of the
\* user before, optimistic marks and dropped refreshes are all repaired.
RefreshConverges ==
    (<>[](session # NoUser /\ submit.pc = "idle") /\ []<><<Refresh>>_vars) =>
        <>[](session # NoUser => cache.items = ListOf(session))

=============================================================================
