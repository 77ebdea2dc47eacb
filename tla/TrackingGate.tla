----------------------------- MODULE TrackingGate -----------------------------
(***************************************************************************)
(* Whether a poll of the idle loop may track: pin_plus_active of           *)
(* domain/service/subscription_service.rs, can_track_time and attendance   *)
(* of LiveStatus, the work status of domain/service/work_status_service.rs *)
(* and those who write them, each from its own answers and without a look  *)
(* at the others: the login (domain/usecase/user_usecase.rs), the loops    *)
(* user_info_sync, policy_sync and update_check of platform/sync, and the  *)
(* logout (domain/service/user_service.rs).                                *)
(*                                                                         *)
(* What else a login keeps, and how it fails, is in Session.  Here a task  *)
(* is one step from one await to the next; the two stores of a user-info   *)
(* cycle and of a logout are kept apart.                                   *)
(***************************************************************************)
EXTENDS Integers, Sequences

CONSTANTS
    Employees,
    NoUser,
    Currents,       \* what an update check may answer as current_version,
    Minima,         \* and as minimum_required_version
    Facts,          \* what the server may know of an employee
    MaxTrouble      \* bound: changes at the server and requests that fail, together

Versions == Seq(Nat)

Attendances == {"WORKING", "AFTER_WORK", "UNKNOWN"}
Results == {"zero", "positive"}     \* the number of minutes of get_workstatus

ASSUME UsersAssumption == NoUser \notin Employees
ASSUME FactsAssumption ==
    Facts \subseteq [plan : BOOLEAN, policy : BOOLEAN, attendance : Attendances,
                     result : Results]
ASSUME VersionAssumption == Currents \subseteq Versions /\ Minima \subseteq Versions
ASSUME BoundAssumption == MaxTrouble \in Nat

VARIABLES
    session,    \* AppState.session
    canTrack,   \* LiveStatus.can_track_time
    attendance, \* LiveStatus.attendance
    plan,       \* subscription_service::CURRENT: pinpluse, or "none"
    result,     \* work_status_service::CURRENT_RESULT, or "none"
    login,      \* the login task
    userInfo,   \* the user-info loop
    policySync, \* the policy loop
    leaving,    \* a logout has still to store can_track_time
    tracking,   \* whether the last poll of the idle loop passed every gate
    server,     \* what the server answers for each employee
    offer,      \* what it answers to an update check; AppState.update_info keeps
                \* the last answer for the menu to show, and nothing here reads it
    trouble     \* trouble still allowed

gates == <<canTrack, attendance, plan, result>>
tasks == <<login, userInfo, policySync, leaving>>
vars == <<session, gates, offer, tasks, tracking, server, trouble>>

Users == Employees \cup {NoUser}

Update == [force : BOOLEAN, current : Currents, minimum : Minima]

Asleep == [pc |-> "asleep", as |-> NoUser, got |-> FALSE]
Task(pcs) == [pc : {"asleep"} \cup pcs, as : Users, got : BOOLEAN]

Trouble == trouble > 0 /\ trouble' = trouble - 1

\* version_lt; a part that is missing counts as 0.
Part(v, i) == IF i \in DOMAIN v THEN v[i] ELSE 0
VersionLt(v, w) ==
    \E i \in DOMAIN v \cup DOMAIN w :
        /\ Part(v, i) < Part(w, i)
        /\ \A j \in 1 .. i - 1 : Part(v, j) = Part(w, j)

\* derive: NotIn and OffWork, which the gate does not tell apart, are one.
Derive(r) ==
    CASE r = "none" -> "Unknown" [] r = "zero" -> "NotWorking" [] r = "positive" -> "WorkingNow"

Init ==
    /\ session = NoUser
    /\ canTrack = FALSE
    /\ attendance = "UNKNOWN"
    /\ plan = "none"
    /\ result = "none"
    /\ login = Asleep
    /\ userInfo = Asleep
    /\ policySync = Asleep
    /\ leaving = FALSE
    /\ tracking = FALSE
    /\ server \in [Employees -> Facts]
    /\ offer \in Update
    /\ trouble = MaxTrouble

(***************************************************************************)
(* The idle loop                                                           *)
(***************************************************************************)

EnablesTracking == attendance \in {"WORKING", "UNKNOWN"}

\* Mutant: the poll relies on can_track_time alone for the plan.
PassesCanTrack ==
    /\ canTrack
    /\ EnablesTracking
    /\ Derive(result) = "WorkingNow"

\* The gates of one poll, in the order of the loop.
Passes ==
    /\ plan = "yes"
    /\ canTrack
    /\ EnablesTracking
    /\ Derive(result) = "WorkingNow"

Poll ==
    /\ tracking' = Passes
    /\ UNCHANGED <<session, gates, offer, tasks, server, trouble>>

(***************************************************************************)
(* Login                                                                   *)
(***************************************************************************)

\* session_caches::clear_all: neither can_track_time nor the attendance.
ClearAll == plan' = "none" /\ result' = "none"

YesNo(b) == IF b THEN "yes" ELSE "no"

LoginGoto(pc) == login' = [login EXCEPT !.pc = pc]

LoginBegin(u) ==
    /\ session = NoUser
    /\ login.pc = "asleep"
    /\ login' = [Asleep EXCEPT !.pc = "plan", !.as = u]
    /\ ClearAll
    /\ UNCHANGED <<session, canTrack, attendance, offer, userInfo, policySync, leaving,
                   tracking, server, trouble>>

\* check_pay_use answers.
LoginPlan ==
    /\ login.pc = "plan"
    /\ login' = [login EXCEPT !.pc = "enter", !.got = server[login.as].plan]
    /\ UNCHANGED <<session, gates, offer, userInfo, policySync, leaving, tracking, server, trouble>>

\* persist_session says "may track" (User::can_track_time is always true), then
\* apply_subscription_gate takes it back if there is no plan.
LoginEnter ==
    /\ login.pc = "enter"
    /\ plan' = YesNo(login.got)
    /\ session' = login.as
    /\ canTrack' = login.got
    /\ attendance' = "UNKNOWN"
    /\ login' = [login EXCEPT !.pc = "attendance", !.got = FALSE]
    /\ UNCHANGED <<result, offer, userInfo, policySync, leaving, tracking, server, trouble>>

\* The loads after it are stored as they come; one that fails is skipped.
LoginLoad ==
    \/ /\ login.pc = "attendance"
       /\ attendance' = server[login.as].attendance
       /\ LoginGoto("result")
       /\ UNCHANGED <<canTrack, result>>
    \/ /\ login.pc = "result"
       /\ result' = server[login.as].result
       /\ LoginGoto("policy")
       /\ UNCHANGED <<canTrack, attendance>>
    \/ /\ login.pc = "policy"
       /\ canTrack' = (canTrack /\ server[login.as].policy)
       /\ login' = Asleep
       /\ UNCHANGED <<attendance, result>>

LoginLoads ==
    /\ LoginLoad
    /\ UNCHANGED <<session, plan, offer, userInfo, policySync, leaving, tracking, server, trouble>>

LoginFails ==
    /\ login.pc \in {"plan", "attendance", "result", "policy"}
    /\ Trouble
    /\ CASE login.pc \in {"plan", "policy"} -> login' = Asleep
         [] login.pc = "attendance" -> LoginGoto("result")
         [] login.pc = "result" -> LoginGoto("policy")
    /\ UNCHANGED <<session, gates, offer, userInfo, policySync, leaving, tracking, server>>

(***************************************************************************)
(* Logout: by the button, or by the user-info loop                         *)
(***************************************************************************)

Logout ==
    /\ ~leaving
    /\ ClearAll
    /\ session' = NoUser
    /\ leaving' = TRUE

LogoutClicked ==
    /\ session # NoUser
    /\ Logout
    /\ UNCHANGED <<canTrack, attendance, offer, login, userInfo, policySync, tracking,
                   server, trouble>>

\* Its last store; a login may have come in between.
LogoutStatus ==
    /\ leaving
    /\ canTrack' = FALSE
    /\ leaving' = FALSE
    /\ UNCHANGED <<session, attendance, plan, result, offer, login, userInfo, policySync,
                   tracking, server, trouble>>

(***************************************************************************)
(* user_info_sync: one cycle for the session it reads first                *)
(***************************************************************************)

InfoGoto(pc) == userInfo' = [userInfo EXCEPT !.pc = pc]

\* Mutant: the cycle starts although nobody is logged in.
InfoStartAnyway ==
    /\ userInfo.pc = "asleep"
    /\ userInfo' = [Asleep EXCEPT !.pc = "plan", !.as = session]
    /\ UNCHANGED <<session, gates, offer, login, policySync, leaving, tracking, server,
                   trouble>>

InfoStart ==
    /\ userInfo.pc = "asleep"
    /\ session # NoUser
    /\ userInfo' = [Asleep EXCEPT !.pc = "plan", !.as = session]
    /\ UNCHANGED <<session, gates, offer, login, policySync, leaving, tracking, server, trouble>>

InfoPlan ==
    /\ userInfo.pc = "plan"
    /\ userInfo' = [userInfo EXCEPT !.pc = "status", !.got = server[userInfo.as].plan]
    /\ UNCHANGED <<session, gates, offer, login, policySync, leaving, tracking, server, trouble>>

\* can_track_time first, the subscription under a lock of its own after it.
InfoStatus ==
    /\ userInfo.pc = "status"
    /\ canTrack' = userInfo.got
    /\ InfoGoto("subscription")
    /\ UNCHANGED <<session, attendance, plan, result, offer, login, policySync, leaving,
                   tracking, server, trouble>>

\* Mutant: a cycle keeps the subscription it finds.
InfoSubscriptionKept ==
    /\ userInfo.pc = "subscription"
    /\ plan' = IF plan = "none" THEN YesNo(userInfo.got) ELSE plan
    /\ userInfo' = [userInfo EXCEPT !.pc = "info", !.got = FALSE]
    /\ UNCHANGED <<session, canTrack, attendance, result, offer, login, policySync, leaving,
                   tracking, server, trouble>>

InfoSubscription ==
    /\ userInfo.pc = "subscription"
    /\ plan' = YesNo(userInfo.got)
    /\ userInfo' = [userInfo EXCEPT !.pc = "info", !.got = FALSE]
    /\ UNCHANGED <<session, canTrack, attendance, result, offer, login, policySync, leaving,
                   tracking, server, trouble>>

InfoAttendance ==
    /\ userInfo.pc = "info"
    /\ attendance' = server[userInfo.as].attendance
    /\ InfoGoto("work")
    /\ UNCHANGED <<session, canTrack, plan, result, offer, login, policySync, leaving,
                   tracking, server, trouble>>

\* force_logout: the cycle ends with the logout of whoever is logged in.
InfoForcesLogout ==
    /\ userInfo.pc = "info"
    /\ Logout
    /\ userInfo' = Asleep
    /\ UNCHANGED <<canTrack, attendance, offer, login, policySync, tracking, server, trouble>>

InfoWork ==
    /\ userInfo.pc = "work"
    /\ result' = server[userInfo.as].result
    /\ userInfo' = Asleep
    /\ UNCHANGED <<session, canTrack, attendance, plan, offer, login, policySync, leaving,
                   tracking, server, trouble>>

\* A request that fails keeps what there was, and the cycle goes on.
InfoFails ==
    /\ userInfo.pc \in {"plan", "info", "work"}
    /\ Trouble
    /\ CASE userInfo.pc = "plan" -> InfoGoto("info")
         [] userInfo.pc = "info" -> InfoGoto("work")
         [] userInfo.pc = "work" -> userInfo' = Asleep
    /\ UNCHANGED <<session, gates, offer, login, policySync, leaving, tracking, server>>

(***************************************************************************)
(* policy_sync                                                             *)
(***************************************************************************)

PolicyStart ==
    /\ policySync.pc = "asleep"
    /\ session # NoUser
    /\ policySync' = [Asleep EXCEPT !.pc = "sent", !.as = session]
    /\ UNCHANGED <<session, gates, offer, login, userInfo, leaving, tracking, server, trouble>>

PolicyAnswered ==
    /\ policySync.pc = "sent"
    /\ policySync' = [policySync EXCEPT !.pc = "answered",
                                        !.got = server[policySync.as].policy]
    /\ UNCHANGED <<session, gates, offer, login, userInfo, leaving, tracking, server, trouble>>

\* The plan has no part in it: session.can_track_time() is always true.
PolicyStored ==
    /\ policySync.pc = "answered"
    /\ canTrack' = policySync.got
    /\ policySync' = Asleep
    /\ UNCHANGED <<session, attendance, plan, result, offer, login, userInfo, leaving,
                   tracking, server, trouble>>

PolicyFails ==
    /\ policySync.pc # "asleep"
    /\ Trouble
    /\ policySync' = Asleep
    /\ UNCHANGED <<session, gates, offer, login, userInfo, leaving, tracking, server>>

(***************************************************************************)
(* update_check                                                            *)
(***************************************************************************)

Outdated(u) == u.force /\ VersionLt(u.current, u.minimum)

\* Twice a day, whether or not somebody is logged in, and as long as the server says
\* so again and again.  A check that fails, and the time between two checks, are
\* steps that are not taken.
UpdateChecked ==
    /\ canTrack' = (canTrack /\ ~Outdated(offer))
    /\ UNCHANGED <<session, attendance, plan, result, offer, tasks, tracking, server, trouble>>

(***************************************************************************)
(* The server                                                              *)
(***************************************************************************)

Change(e) ==
    /\ Trouble
    /\ \E f \in Facts : f # server[e] /\ server' = [server EXCEPT ![e] = f]
    /\ UNCHANGED <<session, gates, offer, tasks, tracking>>

\* A version is published, or withdrawn.
Publish ==
    /\ Trouble
    /\ offer' \in Update \ {offer}
    /\ UNCHANGED <<session, gates, tasks, tracking, server>>

LoginStep == LoginPlan \/ LoginEnter \/ LoginLoads
InfoStep ==
    \/ InfoStart \/ InfoPlan \/ InfoStatus \/ InfoSubscription \/ InfoAttendance \/ InfoWork
PolicyStep == PolicyStart \/ PolicyAnswered \/ PolicyStored

Next ==
    \/ Poll
    \/ \E u \in Employees : LoginBegin(u)
    \/ LoginStep \/ LoginFails
    \/ LogoutClicked \/ LogoutStatus
    \/ InfoStep \/ InfoForcesLogout \/ InfoFails
    \/ PolicyStep \/ PolicyFails
    \/ UpdateChecked \/ Publish
    \/ \E e \in Employees : Change(e)

Spec == Init /\ [][Next]_vars

\* The idle loop polls, the loops wake up, a request is answered or fails, a
\* logout that was called runs to its end.
Fairness ==
    /\ WF_vars(Poll)
    /\ WF_vars(LoginStep)
    /\ WF_vars(LogoutStatus)
    /\ WF_vars(InfoStep)
    /\ WF_vars(PolicyStep)

FairSpec == Spec /\ Fairness

-----------------------------------------------------------------------------
(***************************************************************************)
(* Properties                                                              *)
(***************************************************************************)

\* Every variable has its type; a task under way is somebody's, and the session
\* is only missing where a login or a logout has left it so.
TypeOK ==
    /\ session \in Users
    /\ canTrack \in BOOLEAN
    /\ attendance \in Attendances
    /\ plan \in {"none", "yes", "no"}
    /\ result \in Results \cup {"none"}
    /\ offer \in Update
    /\ login \in Task({"plan", "enter", "attendance", "result", "policy"})
    /\ login.pc # "asleep" => login.as \in Employees
    /\ userInfo \in Task({"plan", "status", "subscription", "info", "work"})
    /\ userInfo.pc # "asleep" => userInfo.as \in Employees
    /\ policySync \in Task({"sent", "answered"})
    /\ policySync.pc # "asleep" => policySync.as \in Employees
    /\ leaving \in BOOLEAN
    /\ tracking \in BOOLEAN
    /\ server \in [Employees -> Facts]
    /\ trouble \in Nat

MustNotTrack(e) ==
    ~server[e].plan \/ server[e].attendance = "AFTER_WORK" \/ server[e].result = "zero"

MustTrack(e) ==
    server[e] = [plan |-> TRUE, policy |-> TRUE, attendance |-> "WORKING", result |-> "positive"]

\* Without the plan, or off work, the tracking of who stays logged in stops for
\* good, although policy_sync says "may track" again and again and answers for
\* the user before may still come in.  The policy's own "no" is not among what
\* stops it: every user-info cycle overwrites that with the plan.
StopsForGood ==
    \A e \in Employees : <>[](session = e /\ MustNotTrack(e)) => <>[]~tracking

\* Tracking resumes by itself, for good, once everything allows it, the update
\* checks included: no block of a login, of a logout or of an outdated version
\* that the server no longer insists on is left behind.
ResumesForGood ==
    \A e \in Employees :
        <>[](session = e /\ MustTrack(e) /\ ~Outdated(offer)) => <>[]tracking

\* "Logout removes all state of the user, in memory, on disk and the plan"
\* (user_service.rs): once somebody has logged out and nobody logs in, tracking
\* stops for good.
LoggedOutIsNotTracked ==
    <>[](session = NoUser) => <>[]~tracking

=============================================================================
