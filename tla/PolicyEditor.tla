------------------------------ MODULE PolicyEditor ------------------------------
(***************************************************************************)
(* The policy on its way through this PC: the server's policy, the copy in *)
(* AppState.policy with the fields of LiveStatus derived from it, and the  *)
(* form of the administrator's tab (ui/settings_view.rs), which shows the  *)
(* copy, is edited frame by frame and sent as a PATCH of the fields that   *)
(* differ.  The copy is written by the answer to a PATCH, by policy_sync   *)
(* (platform/sync/policy_sync.rs) and by a login                           *)
(* (domain/usecase/user_usecase.rs).                                       *)
(*                                                                         *)
(* All employees are of one company, which counts its versions; what a     *)
(* policy says is worked out for each employee, from the rows of the       *)
(* employee, the team and the company.  snapshot.of and form.of, for whom  *)
(* the server worked it out, are in no message and, like form.typed, are   *)
(* history.                                                                *)
(***************************************************************************)
EXTENDS Naturals

CONSTANTS
    Employees,
    Admins,         \* those of authority 1 or 2
    NoUser,
    Fields,
    Values,
    Default,        \* the policy of a fresh start of this PC
    First,          \* what the server's policy says to each employee then
    Reaches,        \* the sets of those a change may reach: who in which field
    Logins,         \* the login tasks, manual and automatic
    Slots,          \* bound: PATCH requests of this PC under way at once
    MaxVersion,     \* bound: versions of the policy at the server
    MaxFaults       \* bound: requests that fail

ASSUME UsersAssumption == NoUser \notin Employees /\ Admins \subseteq Employees
ASSUME PoliciesAssumption ==
    Default \in [Fields -> Values] /\ First \in [Employees -> [Fields -> Values]]
ASSUME ReachesAssumption == \A reach \in Reaches : reach \subseteq Employees \X Fields
ASSUME BoundsAssumption == MaxVersion \in Nat \ {0} /\ MaxFaults \in Nat

VARIABLES
    session,    \* AppState.session
    server,     \* the policy of the company, as each employee gets it
    policy,     \* AppState.policy
    live,       \* LiveStatus: the effective threshold, the scope and the version; not
                \* can_track_time, which a save leaves alone and TrackingGate has
    form,       \* PolicyEditForm
    pending,    \* PolicyEditForm.pending
    save,       \* the tasks of submit_policy_patch
    sync,       \* the policy loop
    login,      \* the loads of the login tasks
    faults

loads == <<sync, login>>
vars == <<session, server, policy, live, form, pending, save, loads, faults>>

Users == Employees \cup {NoUser}

\* PolicySnapshot
Policy == [of : Users, version : 0 .. MaxVersion, value : [Fields -> Values]]
Fallback == [of |-> NoUser, version |-> 0, value |-> Default]

\* What GET /policy answers for an employee.
PolicyOf(srv, u) == [of |-> u, version |-> srv.version, value |-> srv.value[u]]

Patches == UNION {[fs -> Values] : fs \in SUBSET Fields}
NoPatch == [f \in {} |-> Default]

Blank == [value |-> Default, original |-> Default, version |-> 0, initialized |-> FALSE,
          of |-> NoUser, typed |-> {}]
NoSave == [pc |-> "idle", as |-> NoUser, patch |-> NoPatch, got |-> Fallback]
NoLoad == [pc |-> "idle", as |-> NoUser, got |-> Fallback]

Fail == faults > 0 /\ faults' = faults - 1

Init ==
    /\ session = NoUser
    /\ server = [version |-> 1, value |-> First]
    /\ policy = Fallback
    /\ live = Fallback
    /\ form = Blank
    /\ pending = FALSE
    /\ save = [s \in Slots |-> NoSave]
    /\ sync = NoLoad
    /\ login = [l \in Logins |-> NoLoad]
    /\ faults = MaxFaults

(***************************************************************************)
(* The tab                                                                 *)
(***************************************************************************)

\* init_from: whatever was typed is gone.
InitFrom(p) ==
    [value |-> p.value, original |-> p.value, version |-> p.version, initialized |-> TRUE,
     of |-> p.of, typed |-> {}]

\* Mutant: the originals of the first visit stay.
DrawnKeeps ==
    IF ~form.initialized THEN InitFrom(policy)
    ELSE IF form.version # policy.version
         THEN [InitFrom(policy) EXCEPT !.original = form.original] ELSE form

\* Mutant: the form is filled on the first visit only.
DrawnOnce == IF ~form.initialized THEN InitFrom(policy) ELSE form

\* Every frame begins with it: the form is filled again when the version of the
\* copy is another one than the form's, and not when its employee is.
Drawn ==
    IF ~form.initialized \/ form.version # policy.version THEN InitFrom(policy) ELSE form

\* A frame in which nothing is touched.  What other threads do while a frame is
\* drawn is as if they had done it before or after: the copy is read once.
Frame ==
    /\ session \in Admins
    /\ form' = Drawn
    /\ UNCHANGED <<session, server, policy, live, pending, save, loads, faults>>

\* No value is refused here: the server alone validates.
Edit(f, v) ==
    /\ session \in Admins
    /\ Drawn.value[f] # v
    /\ form' = [Drawn EXCEPT !.value[f] = v, !.typed = @ \cup {f}]
    /\ UNCHANGED <<session, server, policy, live, pending, save, loads, faults>>

\* diff_patch
DiffPatch(fm) ==
    [f \in {g \in Fields : fm.value[g] # fm.original[g]} |-> fm.value[f]]

IsDirty(fm) == DOMAIN DiffPatch(fm) # {}

Reset ==
    /\ session \in Admins
    /\ IsDirty(Drawn)
    /\ form' = InitFrom(policy)
    /\ UNCHANGED <<session, server, policy, live, pending, save, loads, faults>>

Sent == [pc |-> "sent", as |-> session, patch |-> DiffPatch(Drawn), got |-> Fallback]

Idle == {s \in Slots : save[s].pc = "idle"}

\* Mutant: the tab is drawn for whoever has opened it.
SaveUngated ==
    /\ IsDirty(Drawn)
    /\ ~pending
    /\ Idle # {}
    /\ save' = [save EXCEPT ![CHOOSE s \in Idle : TRUE] = Sent]
    /\ form' = Drawn
    /\ pending' = TRUE
    /\ UNCHANGED <<session, server, policy, live, loads, faults>>

\* The button and submit_policy_patch.
SaveClicked ==
    /\ session \in Admins
    /\ IsDirty(Drawn)
    /\ ~pending
    /\ Idle # {}
    /\ save' = [save EXCEPT ![CHOOSE s \in Idle : TRUE] = Sent]
    /\ form' = Drawn
    /\ pending' = TRUE
    /\ UNCHANGED <<session, server, policy, live, loads, faults>>

(***************************************************************************)
(* The task that saves                                                     *)
(***************************************************************************)

\* A patch is of the company's row: a field of it reaches the employees who inherit
\* that field, and whom the row of a team or of the employee leaves as they are is
\* the server's to know.
Patched(patch, reach) ==
    [version |-> server.version + 1,
     value |-> [u \in Employees |-> [f \in Fields |->
                   IF f \in DOMAIN patch /\ <<u, f>> \in reach
                   THEN patch[f] ELSE server.value[u][f]]]]

\* The server applies a patch, and answers with the requester's policy as it is then,
\* unless the task no longer waits for it.
SaveServed(s, reach) ==
    /\ save[s].pc \in {"sent", "late"}
    /\ save[s].as \in Admins
    /\ server.version < MaxVersion
    /\ server' = Patched(save[s].patch, reach)
    /\ save' = [save EXCEPT ![s] =
                    IF @.pc = "sent"
                    THEN [NoSave EXCEPT !.pc = "answered", !.as = save[s].as,
                                        !.got = PolicyOf(server', save[s].as)]
                    ELSE NoSave]
    /\ UNCHANGED <<session, policy, live, form, pending, loads, faults>>

\* The flag first, whatever the outcome.
SaveReleases(s) ==
    /\ save[s].pc = "answered"
    /\ pending' = FALSE
    /\ save' = [save EXCEPT ![s].pc = "policy"]
    /\ UNCHANGED <<session, server, policy, live, form, loads, faults>>

SavePolicy(s) ==
    /\ save[s].pc = "policy"
    /\ policy' = save[s].got
    /\ save' = [save EXCEPT ![s].pc = "live"]
    /\ UNCHANGED <<session, server, live, form, pending, loads, faults>>

SaveLive(s) ==
    /\ save[s].pc = "live"
    /\ live' = save[s].got
    /\ save' = [save EXCEPT ![s] = NoSave]
    /\ UNCHANGED <<session, server, policy, form, pending, loads, faults>>

\* Mutant: the flag is only taken down by success.
SaveFailsPending(s) ==
    /\ save[s].pc \in {"sent", "answered"}
    /\ Fail
    /\ save' = [save EXCEPT ![s] = NoSave]
    /\ UNCHANGED <<session, server, policy, live, form, pending, loads>>

\* The server refuses, or the request or its answer is lost; a request the task
\* no longer waits for may still arrive.
SaveFails(s) ==
    /\ save[s].pc \in {"sent", "answered"}
    /\ Fail
    /\ pending' = FALSE
    /\ \/ save' = [save EXCEPT ![s] = NoSave]
       \/ save[s].pc = "sent" /\ save' = [save EXCEPT ![s].pc = "late"]
    /\ UNCHANGED <<session, server, policy, live, form, loads>>

\* Another administrator, elsewhere; also a change of one team's or one employee's
\* row, which reaches those only.
OtherAdmin(f, v, reach) ==
    /\ server.version < MaxVersion
    /\ server' = Patched([g \in {f} |-> v], reach)
    /\ server'.value # server.value
    /\ UNCHANGED <<session, policy, live, form, pending, save, loads, faults>>

(***************************************************************************)
(* policy_sync: the copy first, LiveStatus after it                        *)
(***************************************************************************)

SyncStart ==
    /\ sync.pc = "idle"
    /\ session # NoUser
    /\ sync' = [sync EXCEPT !.pc = "sent", !.as = session]
    /\ UNCHANGED <<session, server, policy, live, form, pending, save, login, faults>>

SyncAnswered ==
    /\ sync.pc = "sent"
    /\ sync' = [sync EXCEPT !.pc = "policy", !.got = PolicyOf(server, sync.as)]
    /\ UNCHANGED <<session, server, policy, live, form, pending, save, login, faults>>

\* Mutant: an answer with the version of the copy changes nothing.
SyncSkips ==
    /\ sync.pc = "policy"
    /\ policy' = sync.got
    /\ sync' = IF sync.got.version = policy.version THEN NoLoad ELSE [sync EXCEPT !.pc = "live"]
    /\ UNCHANGED <<session, server, live, form, pending, save, login, faults>>

SyncPolicy ==
    /\ sync.pc = "policy"
    /\ policy' = sync.got
    /\ sync' = [sync EXCEPT !.pc = "live"]
    /\ UNCHANGED <<session, server, live, form, pending, save, login, faults>>

SyncLive ==
    /\ sync.pc = "live"
    /\ live' = sync.got
    /\ sync' = NoLoad
    /\ UNCHANGED <<session, server, policy, form, pending, save, login, faults>>

SyncFails ==
    /\ sync.pc \in {"sent", "policy"}
    /\ Fail
    /\ sync' = NoLoad
    /\ UNCHANGED <<session, server, policy, live, form, pending, save, login>>

(***************************************************************************)
(* Login: LiveStatus first, the copy after it.  A logout keeps both, and   *)
(* the form, and whatever is under way for the one who leaves.             *)
(***************************************************************************)

LoginEnter(l, u) ==
    /\ session = NoUser
    /\ login[l].pc = "idle"
    /\ session' = u
    /\ login' = [login EXCEPT ![l] = [@ EXCEPT !.pc = "sent", !.as = u]]
    /\ UNCHANGED <<server, policy, live, form, pending, save, sync, faults>>

LoginAnswered(l) ==
    /\ login[l].pc = "sent"
    /\ login' = [login EXCEPT ![l] = [@ EXCEPT !.pc = "live", !.got = PolicyOf(server, login[l].as)]]
    /\ UNCHANGED <<session, server, policy, live, form, pending, save, sync, faults>>

LoginLive(l) ==
    /\ login[l].pc = "live"
    /\ live' = login[l].got
    /\ login' = [login EXCEPT ![l].pc = "policy"]
    /\ UNCHANGED <<session, server, policy, form, pending, save, sync, faults>>

LoginPolicy(l) ==
    /\ login[l].pc = "policy"
    /\ policy' = login[l].got
    /\ login' = [login EXCEPT ![l] = NoLoad]
    /\ UNCHANGED <<session, server, live, form, pending, save, sync, faults>>

LoginFails(l) ==
    /\ login[l].pc \in {"sent", "live"}
    /\ Fail
    /\ login' = [login EXCEPT ![l] = NoLoad]
    /\ UNCHANGED <<session, server, policy, live, form, pending, save, sync>>

Logout ==
    /\ session # NoUser
    /\ session' = NoUser
    /\ UNCHANGED <<server, policy, live, form, pending, save, loads, faults>>

SaveStep(s) ==
    \/ \E reach \in Reaches : SaveServed(s, reach)
    \/ SaveReleases(s) \/ SavePolicy(s) \/ SaveLive(s)
SyncStep == SyncStart \/ SyncAnswered \/ SyncPolicy \/ SyncLive
LoginStep(l) == LoginAnswered(l) \/ LoginLive(l) \/ LoginPolicy(l)

Next ==
    \/ Frame \/ Reset \/ SaveClicked
    \/ \E f \in Fields, v \in Values : Edit(f, v) \/ \E reach \in Reaches : OtherAdmin(f, v, reach)
    \/ \E s \in Slots : SaveStep(s) \/ SaveFails(s)
    \/ SyncStep \/ SyncFails
    \/ \E l \in Logins : LoginStep(l) \/ LoginFails(l) \/ \E u \in Employees : LoginEnter(l, u)
    \/ Logout

Spec == Init /\ [][Next]_vars

\* The runtime polls its tasks and the policy loop wakes up; whether a save or
\* the drawing of the tab goes on is up to the administrator.
Fairness ==
    /\ \A s \in Slots : WF_vars(SaveStep(s))
    /\ WF_vars(SyncStep)
    /\ \A l \in Logins : WF_vars(LoginStep(l))

FairSpec == Spec /\ Fairness

-----------------------------------------------------------------------------
(***************************************************************************)
(* Properties                                                              *)
(***************************************************************************)

\* Every variable has its type, and whatever is under way was asked by somebody.
TypeOK ==
    /\ session \in Users
    /\ server \in [version : 0 .. MaxVersion, value : [Employees -> [Fields -> Values]]]
    /\ policy \in Policy
    /\ live \in Policy
    /\ form \in [value : [Fields -> Values], original : [Fields -> Values],
                 version : 0 .. MaxVersion, initialized : BOOLEAN, of : Users,
                 typed : SUBSET Fields]
    /\ pending \in BOOLEAN
    /\ save \in [Slots -> [pc : {"idle", "sent", "answered", "policy", "live", "late"},
                           as : Users, patch : Patches, got : Policy]]
    /\ \A s \in Slots : save[s].pc # "idle" => save[s].as \in Employees
    /\ sync \in [pc : {"idle", "sent", "policy", "live"}, as : Users, got : Policy]
    /\ sync.pc # "idle" => sync.as \in Employees
    /\ login \in [Logins -> [pc : {"idle", "sent", "live", "policy"}, as : Users, got : Policy]]
    /\ \A l \in Logins : login[l].pc # "idle" => login[l].as \in Employees
    /\ faults \in Nat

Waits(s) == save[s].pc \in {"sent", "answered"}

\* The save button is never left disabled: "saving" means that exactly one task
\* waits for an answer, although the flag is taken down before the answer is
\* stored and another save may begin in between.
PendingHasSave ==
    /\ pending => \E s \in Slots : Waits(s)
    /\ \A s, t \in Slots : Waits(s) /\ Waits(t) => s = t
    /\ \A s \in Slots : Waits(s) => pending

\* A form filled for the same employee as the copy, and of the same version, has the
\* copy as its originals: for one employee the version tells whether the form is out
\* of date.  It does not when the employee has changed: two employees' policies of
\* one version may differ, and the form is not filled again.
VersionNamesOriginal ==
    form.initialized /\ form.version = policy.version /\ form.of = policy.of =>
        form.original = policy.value

\* What a save would send is what was typed since the form was filled: no field
\* of an older version, or of the fallback, is taken for a wish of the
\* administrator and overwrites what another one has set at the server.
OnlyTypedIsSent == DOMAIN DiffPatch(form) \subseteq form.typed

\* If somebody stays logged in, the copy and LiveStatus end up as what the server's
\* policy says to that employee, in whatever order a PATCH, the logins and the policy
\* loop, with answers from before and after and for the employee who was there before,
\* store the one and the other.
PolicyConverges ==
    \A u \in Employees :
        <>[](session = u) => <>[](policy = PolicyOf(server, u) /\ live = PolicyOf(server, u))

\* And the form gets to the server's version, if the tab is drawn again and again, with
\* the originals of whom it was filled for: perhaps still the employee before, whose
\* form of an equal version is not filled again.
FormFollows ==
    (<>[](session # NoUser) /\ []<>(form = Drawn)) =>
        <>[](/\ form.version = server.version
             /\ form.of \in Employees
             /\ form.original = server.value[form.of])

=============================================================================
