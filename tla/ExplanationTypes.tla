---------------------------- MODULE ExplanationTypes ----------------------------
(***************************************************************************)
(* The types an explanation can be given: each company has its own list at *)
(* the server, and this PC the cache of                                    *)
(* domain/service/explanation_type_service.rs, with built-in types while   *)
(* it is empty.  The cache is filled by a login, by every cycle of         *)
(* user_info_sync and after a call of the administrator's tab              *)
(* (ui/settings_view.rs), each with whatever answer it waited for, and     *)
(* emptied by logins and logouts.  One flag and one message serve the four *)
(* buttons of the tab, whose calls run as tasks of their own.              *)
(***************************************************************************)
EXTENDS FiniteSets, Naturals

CONSTANTS
    Employees,
    NoUser,
    Admins,         \* those of authority 1 or 2
    Company,        \* the company of each employee
    Types,
    Protected,      \* types that cannot be taken away, as "OTHER"
    First,          \* the list every company begins with
    Slots,          \* bound: calls of the tab under way at once
    MaxChanges,     \* bound: changes at the server
    MaxFaults       \* bound: requests that fail

Companies == {Company[e] : e \in Employees}

\* A type is not on the list, or on it, with or without a text that is required.
Kinds == {"off", "plain", "text"}
List == [Types -> Kinds]
Active(list) == {t \in Types : list[t] # "off"}

ASSUME UsersAssumption ==
    NoUser \notin Employees /\ Admins \subseteq Employees /\ DOMAIN Company = Employees
ASSUME TypesAssumption == Protected \subseteq Types /\ First \in List
ASSUME BoundsAssumption == MaxChanges \in Nat /\ MaxFaults \in Nat

VARIABLES
    session,    \* AppState.session
    server,     \* the list of each company
    cache,      \* explanation_type_service::CURRENT
    leaving,    \* a logout has emptied the cache and not yet ended the session
    pending,    \* ExplanationCmsForm.pending
    message,    \* ExplanationCmsForm.status: nothing, "calling ...", or an outcome
    call,       \* the tasks of the four buttons
    userInfo,   \* the user-info loop
    login,      \* the login task
    changes, faults

form == <<pending, message>>
loads == <<userInfo, login>>
vars == <<session, server, cache, leaving, form, call, loads, changes, faults>>

Users == Employees \cup {NoUser}
NoList == [t \in {} |-> "off"]
Asked == {"create", "patch", "deactivate", "usage"}

NoCall == [pc |-> "idle", ask |-> "usage", of |-> NoUser, got |-> NoList]
NoLoad == [pc |-> "idle", of |-> NoUser, got |-> NoList]

Fail == faults > 0 /\ faults' = faults - 1
ListOf(e) == server[Company[e]]

Init ==
    /\ session = NoUser
    /\ server = [c \in Companies |-> First]
    /\ cache = NoList
    /\ leaving = FALSE
    /\ pending = FALSE
    /\ message = "none"
    /\ call = [s \in Slots |-> NoCall]
    /\ userInfo = NoLoad
    /\ login = NoLoad
    /\ changes = MaxChanges
    /\ faults = MaxFaults

(***************************************************************************)
(* The server                                                              *)
(***************************************************************************)

\* What a call may make of a list: a new type, one with its requires_text set to
\* the checkbox, or one taken away, but neither a protected one nor the last.
Created(old, new) ==
    \E t \in Types \ Active(old), k \in {"plain", "text"} : new = [old EXCEPT ![t] = k]
Patched(old, new) ==
    \E t \in Active(old), k \in {"plain", "text"} : new = [old EXCEPT ![t] = k]
Deactivated(old, new) ==
    /\ Cardinality(Active(old)) > 1
    /\ \E t \in Active(old) \ Protected : new = [old EXCEPT ![t] = "off"]

Change(c, ask) ==
    /\ changes > 0
    /\ changes' = changes - 1
    /\ \E new \in List :
        /\ CASE ask = "create" -> Created(server[c], new)
             [] ask = "patch" -> Patched(server[c], new)
             [] ask = "deactivate" -> Deactivated(server[c], new)
             [] ask = "usage" -> FALSE
        /\ server' = [server EXCEPT ![c] = new]

\* Another administrator, or a call this PC has given up.
OtherAdmin(c, ask) ==
    /\ Change(c, ask)
    /\ UNCHANGED <<session, cache, leaving, form, call, loads, faults>>

(***************************************************************************)
(* The tab                                                                 *)
(***************************************************************************)

Goto(s, pc) == call' = [call EXCEPT ![s].pc = pc]

\* A button returns without a call: there is no label, or the session has ended
\* since the tab was gated.
CallRefused ==
    /\ session \in Admins
    /\ ~pending
    /\ message' = "told"
    /\ UNCHANGED <<session, server, cache, leaving, pending, call, loads, changes, faults>>

\* Mutant: the buttons are not disabled.
CallAnyway(s, ask) ==
    /\ session \in Admins
    /\ call[s].pc = "idle"
    /\ call' = [call EXCEPT ![s] = [NoCall EXCEPT !.pc = "sent", !.ask = ask, !.of = session]]
    /\ pending' = TRUE
    /\ message' = "calling"
    /\ UNCHANGED <<session, server, cache, leaving, loads, changes, faults>>

\* cms_begin, and the task.
CallClicked(s, ask) ==
    /\ session \in Admins
    /\ ~pending
    /\ call[s].pc = "idle"
    /\ call' = [call EXCEPT ![s] = [NoCall EXCEPT !.pc = "sent", !.ask = ask, !.of = session]]
    /\ pending' = TRUE
    /\ message' = "calling"
    /\ UNCHANGED <<session, server, cache, leaving, loads, changes, faults>>

\* The usage is only shown.
CallServed(s) ==
    /\ call[s].pc = "sent"
    /\ \/ Change(Company[call[s].of], call[s].ask) /\ Goto(s, "refresh")
       \/ call[s].ask = "usage" /\ Goto(s, "release") /\ UNCHANGED <<server, changes>>
    /\ UNCHANGED <<session, cache, leaving, form, loads, faults>>

\* 403, 404 or 409, or a request that is lost; or only its answer is.
CallFails(s) ==
    /\ \/ call[s].pc = "sent" /\ UNCHANGED faults
       \/ call[s].pc = "refresh" /\ Fail
    /\ Goto(s, "release")
    /\ UNCHANGED <<session, server, cache, leaving, form, loads, changes>>

\* Mutant: nobody looks whether somebody is still logged in.
RefreshAnyway(s) ==
    /\ call[s].pc = "refresh"
    /\ call' = [call EXCEPT ![s].pc = "listing", ![s].of = session]
    /\ UNCHANGED <<session, server, cache, leaving, form, loads, changes, faults>>

\* refresh_explanation_cache asks for the list of whoever is logged in by then.
Refresh(s) ==
    /\ call[s].pc = "refresh"
    /\ call' = [call EXCEPT ![s].pc = IF session = NoUser THEN "release" ELSE "listing",
                            ![s].of = session]
    /\ UNCHANGED <<session, server, cache, leaving, form, loads, changes, faults>>

RefreshServed(s) ==
    /\ call[s].pc = "listing"
    /\ call' = [call EXCEPT ![s].pc = "listed", ![s].got = ListOf(call[s].of)]
    /\ UNCHANGED <<session, server, cache, leaving, form, loads, changes, faults>>

RefreshStored(s) ==
    /\ call[s].pc = "listed"
    /\ cache' = call[s].got
    /\ Goto(s, "release")
    /\ UNCHANGED <<session, server, leaving, form, loads, changes, faults>>

RefreshFails(s) ==
    /\ call[s].pc \in {"listing", "listed"}
    /\ Fail
    /\ Goto(s, "release")
    /\ UNCHANGED <<session, server, cache, leaving, form, loads, changes>>

\* The flag first, the message after it.
Release(s) ==
    /\ call[s].pc = "release"
    /\ pending' = FALSE
    /\ Goto(s, "tell")
    /\ UNCHANGED <<session, server, cache, leaving, message, loads, changes, faults>>

Tell(s) ==
    /\ call[s].pc = "tell"
    /\ message' = "told"
    /\ call' = [call EXCEPT ![s] = NoCall]
    /\ UNCHANGED <<session, server, cache, leaving, pending, loads, changes, faults>>

(***************************************************************************)
(* Login and logout                                                        *)
(***************************************************************************)

\* finalize_session begins with an empty cache.
LoginBegin(u) ==
    /\ session = NoUser
    /\ login.pc = "idle"
    /\ login' = [NoLoad EXCEPT !.pc = "auth", !.of = u]
    /\ cache' = NoList
    /\ UNCHANGED <<session, server, leaving, form, call, userInfo, changes, faults>>

LoginEnter ==
    /\ login.pc = "auth"
    /\ session' = login.of
    /\ login' = [login EXCEPT !.pc = "sent"]
    /\ UNCHANGED <<server, cache, leaving, form, call, userInfo, changes, faults>>

LoginServed ==
    /\ login.pc = "sent"
    /\ login' = [login EXCEPT !.pc = "answered", !.got = ListOf(login.of)]
    /\ UNCHANGED <<session, server, cache, leaving, form, call, userInfo, changes, faults>>

LoginStored ==
    /\ login.pc = "answered"
    /\ cache' = login.got
    /\ login' = NoLoad
    /\ UNCHANGED <<session, server, leaving, form, call, userInfo, changes, faults>>

LoginFails ==
    /\ login.pc # "idle"
    /\ Fail
    /\ login' = NoLoad
    /\ UNCHANGED <<session, server, cache, leaving, form, call, userInfo, changes>>

\* The button or a forced logout: the cache first, the session after it.
LogoutClear ==
    /\ session # NoUser
    /\ ~leaving
    /\ cache' = NoList
    /\ leaving' = TRUE
    /\ UNCHANGED <<session, server, form, call, loads, changes, faults>>

LogoutSession ==
    /\ leaving
    /\ session' = NoUser
    /\ leaving' = FALSE
    /\ UNCHANGED <<server, cache, form, call, loads, changes, faults>>

(***************************************************************************)
(* user_info_sync                                                          *)
(***************************************************************************)

InfoStart ==
    /\ userInfo.pc = "idle"
    /\ session # NoUser
    /\ userInfo' = [NoLoad EXCEPT !.pc = "sent", !.of = session]
    /\ UNCHANGED <<session, server, cache, leaving, form, call, login, changes, faults>>

InfoServed ==
    /\ userInfo.pc = "sent"
    /\ userInfo' = [userInfo EXCEPT !.pc = "answered", !.got = ListOf(userInfo.of)]
    /\ UNCHANGED <<session, server, cache, leaving, form, call, login, changes, faults>>

\* Mutant: a cycle only fills a cache that is empty.
InfoFills ==
    /\ userInfo.pc = "answered"
    /\ cache' = IF cache = NoList THEN userInfo.got ELSE cache
    /\ userInfo' = NoLoad
    /\ UNCHANGED <<session, server, leaving, form, call, login, changes, faults>>

InfoStored ==
    /\ userInfo.pc = "answered"
    /\ cache' = userInfo.got
    /\ userInfo' = NoLoad
    /\ UNCHANGED <<session, server, leaving, form, call, login, changes, faults>>

\* A request of the cycle fails, or it ends with a forced logout.
InfoFails ==
    /\ userInfo.pc # "idle"
    /\ Fail
    /\ userInfo' = NoLoad
    /\ UNCHANGED <<session, server, cache, leaving, form, call, login, changes>>

CallStep(s) ==
    \/ CallServed(s) \/ CallFails(s) \/ Refresh(s) \/ RefreshServed(s) \/ RefreshStored(s)
    \/ Release(s) \/ Tell(s)
LoginStep == LoginEnter \/ LoginServed \/ LoginStored
InfoStep == InfoStart \/ InfoServed \/ InfoStored

Next ==
    \/ \E s \in Slots : CallStep(s) \/ RefreshFails(s)
    \/ \E s \in Slots, ask \in Asked : CallClicked(s, ask)
    \/ CallRefused
    \/ \E c \in Companies, ask \in Asked : OtherAdmin(c, ask)
    \/ \E u \in Employees : LoginBegin(u)
    \/ LoginStep \/ LoginFails
    \/ LogoutClear \/ LogoutSession
    \/ InfoStep \/ InfoFails

Spec == Init /\ [][Next]_vars

\* The runtime polls its tasks, a request is answered or given up, the loop
\* wakes up, and a logout that was called runs to its end.
Fairness ==
    /\ \A s \in Slots : WF_vars(CallStep(s))
    /\ WF_vars(LoginStep)
    /\ WF_vars(LogoutSession)
    /\ WF_vars(InfoStep)

FairSpec == Spec /\ Fairness

-----------------------------------------------------------------------------
(***************************************************************************)
(* Properties                                                              *)
(***************************************************************************)

Lists == List \cup {NoList}

\* Every variable has its type, and a request under way is somebody's.
TypeOK ==
    /\ session \in Users
    /\ server \in [Companies -> List]
    /\ cache \in Lists
    /\ leaving \in BOOLEAN
    /\ pending \in BOOLEAN
    /\ message \in {"none", "calling", "told"}
    /\ call \in [Slots -> [pc : {"idle", "sent", "refresh", "listing", "listed", "release", "tell"},
                           ask : Asked, of : Users, got : Lists]]
    /\ \A s \in Slots : call[s].pc \in {"sent", "listing", "listed"} => call[s].of \in Employees
    /\ userInfo \in [pc : {"idle", "sent", "answered"}, of : Users, got : Lists]
    /\ userInfo.pc # "idle" => userInfo.of \in Employees
    /\ login \in [pc : {"idle", "auth", "sent", "answered"}, of : Users, got : Lists]
    /\ login.pc # "idle" => login.of \in Employees
    /\ changes \in Nat
    /\ faults \in Nat

Holds(s) == call[s].pc \notin {"idle", "tell"}

\* The tab is never left disabled or "calling": the flag is up while exactly one
\* call holds it, although a call that has let go of it still writes its message,
\* and "calling ..." is replaced by a task that is under way.
PendingHasCall ==
    /\ pending <=> \E s \in Slots : Holds(s)
    /\ \A s, t \in Slots : Holds(s) /\ Holds(t) => s = t
    /\ message = "calling" => \E s \in Slots : call[s].pc # "idle"

\* Whoever stays logged in ends up with the types of their company as they are:
\* an answer that was under way across a change, a logout or the login of an
\* employee of another company, and a lost refresh, are repaired.
TypesConverge ==
    <>[](session # NoUser) => <>[](session # NoUser => cache = ListOf(session))

=============================================================================
