------------------------------- MODULE Session -------------------------------
(***************************************************************************)
(* Who is logged in: manual and automatic login                            *)
(* (domain/usecase/user_usecase.rs, data/repository/auth_repository.rs),   *)
(* logout and forced logout (domain/service/user_service.rs), what they    *)
(* keep on disk (the auth row, the keyring entry) and in memory (the       *)
(* session, the caches), and the loops that refresh the caches             *)
(* (platform/sync/user_info_sync.rs, policy_sync.rs).                      *)
(*                                                                         *)
(* A cache is abstracted to whom its content is about.  A login and a loop *)
(* are tasks of the runtime, a logout runs on the UI thread or in the      *)
(* user-info loop; between two of their awaits, or two of the stores they  *)
(* write, the others run.                                                  *)
(***************************************************************************)
EXTENDS Naturals, Sequences, FiniteSets

CONSTANTS
    Employees,      \* the users that may log in on this PC
    NoUser,         \* nobody
    Kinds,          \* the caches an instance keeps, out of AllKinds
    MaxEnded,       \* bound: employees who leave or change the password
    MaxFaults       \* bound: failing requests, statements and keyring calls

AllKinds == {"subscription", "mainInfo", "company", "types", "workStatus",
             "attendance", "policy"}

ASSUME UsersAssumption == NoUser \notin Employees
ASSUME KindsAssumption == Kinds \subseteq AllKinds
ASSUME FaultsAssumption == MaxEnded \in Nat /\ MaxFaults \in Nat

VARIABLES
    up,         \* the process runs
    standing,   \* how the server takes each employee
    row,        \* the auth table
    creds,      \* whose credentials the keyring has
    session,    \* AppState.session and user_service::CURRENT
    cache,      \* whom each cache is about
    login,      \* the login tasks
    poll,       \* the refreshing loops
    leaving,    \* how far each caller of logout has come
    faults      \* failures still allowed

memory == <<session, cache>>
disk == <<row, creds>>
tasks == <<login, poll, leaving>>
vars == <<up, standing, disk, memory, tasks, faults>>

Users == Employees \cup {NoUser}
Logins == {"manual", "auto"}
Callers == {"ui", "userInfo"}       \* who calls user_service::logout

\* "forced": user-info asks for a logout.  "gone": the employee has left, and
\* user-info answers 404 or a leave_date, neither of which the loop acts on.
Standings == {"valid", "forced", "gone"}

NoRow == [user |-> NoUser, auto |-> FALSE]
NoLogin == [pc |-> "idle", user |-> NoUser, auto |-> FALSE, todo |-> <<>>]
NoPoll == [pc |-> "asleep", user |-> NoUser, todo |-> <<>>]

\* What finalize_session loads after the session is there, what each loop loads
\* in one cycle, and the loops that load something an instance keeps.
Load(k) == IF k \in Kinds THEN <<k>> ELSE <<>>
LoginLoads == Load("types") \o Load("attendance") \o Load("workStatus") \o Load("policy")
InfoLoads == Load("subscription") \o Load("attendance") \o Load("types")
             \o Load("workStatus") \o Load("mainInfo")
LoopLoads(l) == IF l = "policySync" THEN Load("policy") ELSE InfoLoads
Loops == {l \in {"userInfo", "policySync"} : LoopLoads(l) # <<>>}

Fail == faults > 0 /\ faults' = faults - 1

\* The keyring entry is written or removed; a failure leaves it as it is, and
\* no caller acts on it.
StoreCreds(u) ==
    \/ creds' = u /\ UNCHANGED faults
    \/ Fail /\ UNCHANGED creds

\* session_caches::clear_all: neither AppState.policy nor LiveStatus.attendance
\* is among the caches it empties.
ClearAll ==
    [k \in Kinds |-> IF k \in {"attendance", "policy"} THEN cache[k] ELSE NoUser]

Filled(kinds, u) == [k \in Kinds |-> IF k \in kinds THEN u ELSE cache[k]]

Init ==
    /\ up = FALSE
    /\ standing = [u \in Employees |-> "valid"]
    /\ row = NoRow
    /\ creds = NoUser
    /\ session = NoUser
    /\ cache = [k \in Kinds |-> NoUser]
    /\ login = [t \in Logins |-> NoLogin]
    /\ poll = [l \in Loops |-> NoPoll]
    /\ leaving = [c \in Callers |-> "no"]
    /\ faults = MaxFaults

(***************************************************************************)
(* Login: t is the task of the login button or of kick_auto_login          *)
(***************************************************************************)

\* Mutant: the login button also works while somebody is logged in.
ManualLoginAnyway(u, auto) ==
    /\ up
    /\ login["manual"].pc = "idle"
    /\ login' = [login EXCEPT !["manual"] =
                    [NoLogin EXCEPT !.pc = "auth", !.user = u, !.auto = auto]]
    /\ UNCHANGED <<up, standing, disk, memory, poll, leaving, faults>>

\* start_login, from the login view: it shows while nobody is logged in, and
\* its button waits for the login before.
ManualLogin(u, auto) ==
    /\ up
    /\ session = NoUser
    /\ login["manual"].pc = "idle"
    /\ login' = [login EXCEPT !["manual"] =
                    [NoLogin EXCEPT !.pc = "auth", !.user = u, !.auto = auto]]
    /\ UNCHANGED <<up, standing, disk, memory, poll, leaving, faults>>

Goto(t, pc) == login' = [login EXCEPT ![t].pc = pc]
End(t) == login' = [login EXCEPT ![t] = NoLogin]

\* The server accepts the credentials; finalize_session empties the caches.
Authenticated(t) ==
    /\ login[t].pc = "auth"
    /\ standing[login[t].user] = "valid"
    /\ Goto(t, "fetch")
    /\ cache' = ClearAll
    /\ UNCHANGED <<up, standing, disk, session, poll, leaving, faults>>

\* The credentials are refused or the request fails: a manual login ends, an
\* automatic one goes on to forget the credentials.
NotAuthenticated(t) ==
    /\ login[t].pc = "auth"
    /\ \/ standing[login[t].user] # "valid" /\ UNCHANGED faults
       \/ Fail
    /\ IF t = "auto" THEN Goto(t, "forgetCreds") ELSE End(t)
    /\ UNCHANGED <<up, standing, disk, memory, poll, leaving>>

ForgetCreds ==
    /\ login["auto"].pc = "forgetCreds"
    /\ StoreCreds(NoUser)
    /\ Goto("auto", "forgetRow")
    /\ UNCHANGED <<up, standing, row, memory, poll, leaving>>

\* A DELETE that fails is ignored.
ForgetRow ==
    /\ login["auto"].pc = "forgetRow"
    /\ \/ row' = NoRow /\ UNCHANGED faults
       \/ Fail /\ UNCHANGED row
    /\ End("auto")
    /\ UNCHANGED <<up, standing, creds, memory, poll, leaving>>

\* check_pay_use and get_main2; nothing is stored before both have answered.
Fetched(t) ==
    /\ login[t].pc = "fetch"
    /\ Goto(t, "row")
    /\ UNCHANGED <<up, standing, disk, memory, poll, leaving, faults>>

FetchFails(t) ==
    /\ login[t].pc = "fetch"
    /\ Fail
    /\ End(t)
    /\ UNCHANGED <<up, standing, disk, memory, poll, leaving>>

\* persist_session, the auth row: DELETE, then INSERT.
PersistRow(t) ==
    /\ login[t].pc = "row"
    /\ row' = [user |-> login[t].user, auto |-> login[t].auto]
    /\ Goto(t, "creds")
    /\ UNCHANGED <<up, standing, creds, memory, poll, leaving, faults>>

\* The INSERT fails after the DELETE: the login ends with an error.
PersistRowFails(t) ==
    /\ login[t].pc = "row"
    /\ Fail
    /\ row' = NoRow
    /\ End(t)
    /\ UNCHANGED <<up, standing, creds, memory, poll, leaving>>

\* persist_session, the keyring and the caches: the entry is written or removed
\* as the checkbox says; an error is logged only.
PersistCreds(t) ==
    /\ login[t].pc = "creds"
    /\ StoreCreds(IF login[t].auto THEN login[t].user ELSE NoUser)
    /\ cache' = [k \in Kinds |-> IF k = "company" THEN login[t].user
                                 ELSE IF k = "attendance" THEN NoUser
                                 ELSE cache[k]]
    /\ Goto(t, "session")
    /\ UNCHANGED <<up, standing, row, session, poll, leaving>>

\* What was fetched is published, and the session with it.
SetSession(t) ==
    /\ login[t].pc = "session"
    /\ cache' = Filled({"subscription", "mainInfo"}, login[t].user)
    /\ session' = login[t].user
    /\ login' = [login EXCEPT ![t].pc = "load", ![t].todo = LoginLoads]
    /\ UNCHANGED <<up, standing, disk, poll, leaving, faults>>

\* The loads that follow are stored for the login's own user, whoever has the
\* session by then; one that fails is skipped.
LoginLoad(t) ==
    /\ login[t].pc = "load"
    /\ login[t].todo # <<>>
    /\ \/ /\ cache' = Filled({Head(login[t].todo)}, login[t].user)
          /\ UNCHANGED faults
       \/ Fail /\ UNCHANGED cache
    /\ login' = [login EXCEPT ![t].todo = Tail(@)]
    /\ UNCHANGED <<up, standing, disk, session, poll, leaving>>

LoginDone(t) ==
    /\ login[t].pc = "load"
    /\ login[t].todo = <<>>
    /\ End(t)
    /\ UNCHANGED <<up, standing, disk, memory, poll, leaving, faults>>

(***************************************************************************)
(* user_service::logout                                                    *)
(***************************************************************************)

Leave(c, step) == leaving' = [leaving EXCEPT ![c] = step]

LogoutClicked ==
    /\ up
    /\ session # NoUser
    /\ leaving["ui"] = "no"
    /\ Leave("ui", "creds")
    /\ UNCHANGED <<up, standing, disk, memory, login, poll, faults>>

LogoutCreds(c) ==
    /\ leaving[c] = "creds"
    /\ StoreCreds(NoUser)
    /\ Leave(c, "row")
    /\ UNCHANGED <<up, standing, row, memory, login, poll>>

\* The auth row, then all the caches of the session.
LogoutRow(c) ==
    /\ leaving[c] = "row"
    /\ row' = NoRow
    /\ cache' = ClearAll
    /\ Leave(c, "session")
    /\ UNCHANGED <<up, standing, creds, session, login, poll, faults>>

\* The DELETE fails: logout returns early and the session stays.
LogoutRowFails(c) ==
    /\ leaving[c] = "row"
    /\ Fail
    /\ Leave(c, "no")
    /\ UNCHANGED <<up, standing, disk, memory, login, poll>>

\* Mutant: a forced logout only empties the caches.
KeepSession(c) ==
    /\ leaving[c] = "session"
    /\ Leave(c, "no")
    /\ UNCHANGED <<up, standing, disk, memory, login, poll, faults>>

LogoutSession(c) ==
    /\ leaving[c] = "session"
    /\ session' = NoUser
    /\ Leave(c, "no")
    /\ UNCHANGED <<up, standing, disk, cache, login, poll, faults>>

(***************************************************************************)
(* The refreshing loops                                                    *)
(***************************************************************************)

\* Mutant: a cycle starts although nobody is logged in.
PollStartAnyway(l) ==
    /\ up
    /\ poll[l].pc = "asleep"
    /\ poll' = [poll EXCEPT ![l] = [pc |-> "running", user |-> session,
                                    todo |-> LoopLoads(l)]]
    /\ UNCHANGED <<up, standing, disk, memory, login, leaving, faults>>

\* The sleep is over and somebody is logged in: the cycle is for that user.
PollStart(l) ==
    /\ up
    /\ poll[l].pc = "asleep"
    /\ session # NoUser
    /\ poll' = [poll EXCEPT ![l] = [pc |-> "running", user |-> session,
                                    todo |-> LoopLoads(l)]]
    /\ UNCHANGED <<up, standing, disk, memory, login, leaving, faults>>

Running(l) == poll[l].pc = "running" /\ poll[l].todo # <<>>
Loading(l) == Head(poll[l].todo)

\* What user-info answers, with the attendance or instead of it.
ForcesLogout(l) == Loading(l) = "attendance" /\ standing[poll[l].user] = "forced"
NotFound(l) == Loading(l) = "attendance" /\ standing[poll[l].user] = "gone"

\* Mutant: an answer is only stored where there is nothing yet.
OnlyEmpty(l) == {k \in {Loading(l)} : cache[k] = NoUser}

Refreshed(l) == {Loading(l)}

\* An answer is stored without a look at the session it finds, or at leave_date.
PollLoad(l) ==
    /\ Running(l)
    /\ ~ForcesLogout(l)
    /\ cache' = Filled(Refreshed(l), poll[l].user)
    /\ poll' = [poll EXCEPT ![l].todo = Tail(@)]
    /\ UNCHANGED <<up, standing, disk, session, login, leaving, faults>>

\* What is left to load after a request that failed: explanation types are only
\* asked for right after a user-info that was answered.
Skipped(todo) ==
    LET rest == Tail(todo)
    IN  IF Head(todo) = "attendance" /\ rest # <<>> /\ Head(rest) = "types"
        THEN Tail(rest) ELSE rest

\* A 404 is a request that failed: it is made again in the next cycle.
PollLoadFails(l) ==
    /\ Running(l)
    /\ \/ NotFound(l) /\ UNCHANGED faults
       \/ Fail
    /\ poll' = [poll EXCEPT ![l].todo = Skipped(@)]
    /\ UNCHANGED <<up, standing, disk, memory, login, leaving>>

\* force_logout: whoever is logged in by now is logged out; the cycle ends.
ForcedLogout(l) ==
    /\ Running(l)
    /\ ForcesLogout(l)
    /\ leaving["userInfo"] = "no"
    /\ Leave("userInfo", "creds")
    /\ poll' = [poll EXCEPT ![l] = [NoPoll EXCEPT !.pc = "leaving"]]
    /\ UNCHANGED <<up, standing, disk, memory, login, faults>>

PollDone(l) ==
    /\ \/ poll[l].pc = "running" /\ poll[l].todo = <<>>
       \/ poll[l].pc = "leaving" /\ leaving["userInfo"] = "no"
    /\ poll' = [poll EXCEPT ![l] = NoPoll]
    /\ UNCHANGED <<up, standing, disk, memory, login, leaving, faults>>

(***************************************************************************)
(* The process and the server                                              *)
(***************************************************************************)

\* The UI comes up and tries the automatic login: it needs a row that asks for
\* it and a readable keyring entry, and logs in the user of the entry.
Start ==
    /\ ~up
    /\ up' = TRUE
    /\ \/ /\ login' = IF row.auto /\ creds # NoUser
                     THEN [login EXCEPT !["auto"] =
                             [NoLogin EXCEPT !.pc = "auth", !.user = creds, !.auto = TRUE]]
                     ELSE login
          /\ UNCHANGED faults
       \/ Fail /\ UNCHANGED login
    /\ UNCHANGED <<standing, disk, memory, poll, leaving>>

\* A quit or a crash, at any point.
Stop ==
    /\ up
    /\ up' = FALSE
    /\ session' = NoUser
    /\ cache' = [k \in Kinds |-> NoUser]
    /\ login' = [t \in Logins |-> NoLogin]
    /\ poll' = [l \in Loops |-> NoPoll]
    /\ leaving' = [c \in Callers |-> "no"]
    /\ UNCHANGED <<standing, disk, faults>>

\* An employee leaves the company or changes the password; of who is gone the server
\* may still come to ask for a logout.
Invalidate(u) ==
    /\ \/ standing[u] = "gone"
       \/ standing[u] = "valid" /\ Cardinality({v \in Employees : standing[v] # "valid"}) < MaxEnded
    /\ \E how \in {"forced", "gone"} \ {standing[u]} : standing' = [standing EXCEPT ![u] = how]
    /\ UNCHANGED <<up, disk, memory, tasks, faults>>

LoginStep(t) ==
    \/ Authenticated(t) \/ NotAuthenticated(t)
    \/ Fetched(t) \/ FetchFails(t)
    \/ PersistRow(t) \/ PersistRowFails(t) \/ PersistCreds(t) \/ SetSession(t)
    \/ LoginLoad(t) \/ LoginDone(t)
    \/ t = "auto" /\ (ForgetCreds \/ ForgetRow)

LogoutStep(c) ==
    LogoutCreds(c) \/ LogoutRow(c) \/ LogoutRowFails(c) \/ LogoutSession(c)

PollStep(l) ==
    \/ PollStart(l) \/ PollLoad(l) \/ PollLoadFails(l) \/ ForcedLogout(l)
    \/ PollDone(l)

Next ==
    \/ \E u \in Employees : (\E auto \in BOOLEAN : ManualLogin(u, auto))
                            \/ Invalidate(u)
    \/ \E t \in Logins : LoginStep(t)
    \/ LogoutClicked
    \/ \E c \in Callers : LogoutStep(c)
    \/ \E l \in Loops : PollStep(l)
    \/ Start \/ Stop

Spec == Init /\ [][Next]_vars

\* The runtime polls its tasks, timers fire, a called logout runs to its end.
Fairness ==
    /\ \A t \in Logins : WF_vars(LoginStep(t))
    /\ \A c \in Callers : WF_vars(LogoutStep(c))
    /\ \A l \in Loops : WF_vars(PollStep(l))

FairSpec == Spec /\ Fairness

-----------------------------------------------------------------------------
(***************************************************************************)
(* Properties                                                              *)
(***************************************************************************)

Row == [user : Users, auto : BOOLEAN]
Login == [pc : {"idle", "auth", "forgetCreds", "forgetRow", "fetch", "row",
                "creds", "session", "load"},
          user : Users, auto : BOOLEAN, todo : Seq(Kinds)]
Poll == [pc : {"asleep", "running", "leaving"}, user : Users, todo : Seq(Kinds)]

\* Every variable has its type; a login or a cycle under way is somebody's, and
\* the user-info loop waits while the logout it has called runs.
TypeOK ==
    /\ up \in BOOLEAN
    /\ standing \in [Employees -> Standings]
    /\ row \in Row /\ (row.auto => row.user # NoUser)
    /\ creds \in Users
    /\ session \in Users
    /\ cache \in [Kinds -> Users]
    /\ login \in [Logins -> Login]
    /\ \A t \in Logins : login[t].pc # "idle" => login[t].user \in Employees
    /\ poll \in [Loops -> Poll]
    /\ \A l \in Loops : poll[l].pc = "running" => poll[l].user \in Employees
    /\ leaving \in [Callers -> {"no", "creds", "row", "session"}]
    /\ \A l \in Loops : poll[l].pc = "leaving" => l = "userInfo"
    /\ leaving["userInfo"] # "no" =>
          "userInfo" \in Loops /\ poll["userInfo"].pc = "leaving"
    /\ faults \in Nat

\* u is logged in, nothing that is cached is about anybody else, and no login and
\* no cycle under way is for anybody else.
Own(u) ==
    /\ session = u
    /\ u # NoUser
    /\ \A k \in Kinds : cache[k] \in {u, NoUser}
    /\ \A t \in Logins : login[t].pc # "idle" => login[t].user = u
    /\ \A l \in Loops : poll[l].pc = "running" => poll[l].user = u

\* The data of another user only comes with a task that was begun before: once
\* everything is about the user of the session, nothing else comes in, through a
\* login, a cycle or a logout half done, until the session changes hands.
OwnStaysOwn ==
    [][\A u \in Employees : Own(u) /\ session' = session => Own(u)']_vars

\* "force_logout received: the session is cleared" (user_info_sync.rs): nobody whom
\* the server asks to log out stays logged in, whatever requests, statements and
\* logouts failed and whichever logins were under way.  Of who is gone nothing is
\* said: a 404 is retried and a leave_date ignored, and the session stays.
ForceLogoutTakesEffect == []<>(session = NoUser \/ standing[session] # "forced")

\* Whatever an earlier session, a slow login or a cycle under way has left in
\* the caches, who stays logged in ends up with caches of their own for good, as
\* long as the server knows them.
CachesBecomeOwn ==
    <>[](session # NoUser /\ standing[session] = "valid") =>
        <>[](\A k \in Kinds : cache[k] \in {session, NoUser})

=============================================================================
