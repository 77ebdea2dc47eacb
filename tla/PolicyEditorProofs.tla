--------------------------- MODULE PolicyEditorProofs ---------------------------
(***************************************************************************)
(* Proofs about PolicyEditor, for every set of employees, administrators,  *)
(* fields, values and slots: its types, that the save button is released,  *)
(* that only what was typed is sent, that a version identifies what the    *)
(* policy says to one employee, and that what has arrived stays.           *)
(***************************************************************************)
EXTENDS PolicyEditor, TLAPS

-----------------------------------------------------------------------------
(***************************************************************************)
(* Types                                                                   *)
(***************************************************************************)

FormType == [value : [Fields -> Values], original : [Fields -> Values],
             version : 0 .. MaxVersion, initialized : BOOLEAN, of : Users,
             typed : SUBSET Fields]
ServerType == [version : 0 .. MaxVersion, value : [Employees -> [Fields -> Values]]]
SyncType == [pc : {"idle", "sent", "policy", "live"}, as : Users, got : Policy]
LoginType == [pc : {"idle", "sent", "live", "policy"}, as : Users, got : Policy]
SaveType == [pc : {"idle", "sent", "answered", "policy", "live", "late"},
             as : Users, patch : Patches, got : Policy]

\* The fallback, which every empty answer holds, is a policy.
LEMMA FallbackType == Fallback \in Policy
BY PoliciesAssumption, BoundsAssumption DEF Fallback, Policy, Users

\* What the server answers an employee is a policy.
LEMMA PolicyOfType ==
    ASSUME NEW srv \in ServerType, NEW u \in Employees PROVE PolicyOf(srv, u) \in Policy
BY DEF PolicyOf, ServerType, Policy, Users

\* An idle load is one of either kind.
LEMMA NoLoadType == NoLoad \in SyncType /\ NoLoad \in LoginType
BY FallbackType DEF NoLoad, SyncType, LoginType, Users

\* A form filled with a policy is a form.
LEMMA InitFromType == ASSUME NEW p \in Policy PROVE InitFrom(p) \in FormType
BY DEF InitFrom, FormType, Policy

\* What a frame begins with is a form.
LEMMA DrawnType == ASSUME TypeOK PROVE Drawn \in FormType
BY InitFromType DEF TypeOK, Drawn, FormType

\* The fields that differ make a patch.
LEMMA DiffPatchType == ASSUME NEW fm \in FormType PROVE DiffPatch(fm) \in Patches
<1> DEFINE D == {g \in Fields : fm.value[g] # fm.original[g]}
<1>1. DiffPatch(fm) \in [D -> Values]
  BY DEF DiffPatch, FormType
<1>2. D \in SUBSET Fields
  OBVIOUS
<1> QED
  BY <1>1, <1>2 DEF Patches

\* An idle task has the type of one.
LEMMA NoSaveType == NoSave \in SaveType
<1>1. NoPatch \in [{} -> Values]
  BY DEF NoPatch
<1>2. NoPatch \in Patches
  BY <1>1 DEF Patches
<1> QED
  BY <1>2, FallbackType DEF NoSave, SaveType, Users

\* A patched policy is a policy of the server, as long as versions are left.
LEMMA PatchedType ==
    ASSUME TypeOK, server.version < MaxVersion, NEW patch \in Patches, NEW reach \in Reaches
    PROVE  Patched(patch, reach) \in ServerType
<1>1. PICK fs \in SUBSET Fields : patch \in [fs -> Values]
  BY DEF Patches
<1>2. ASSUME NEW u \in Employees
      PROVE  [f \in Fields |-> IF f \in DOMAIN patch /\ <<u, f>> \in reach
                               THEN patch[f] ELSE server.value[u][f]] \in [Fields -> Values]
  <2>1. server.value[u] \in [Fields -> Values]
    BY DEF TypeOK
  <2> QED
    BY <1>1, <2>1
<1>3. server.version + 1 \in 0 .. MaxVersion
  BY BoundsAssumption DEF TypeOK
<1> QED
  BY <1>2, <1>3 DEF Patched, ServerType

\* A patch of one field is a patch.
LEMMA OneFieldPatch ==
    ASSUME NEW f \in Fields, NEW v \in Values PROVE [g \in {f} |-> v] \in Patches
<1>1. [g \in {f} |-> v] \in [{f} -> Values] /\ {f} \in SUBSET Fields
  OBVIOUS
<1> QED
  BY <1>1 DEF Patches

\* Init has the types.
LEMMA InitTypeOK == Init => TypeOK
<1> SUFFICES ASSUME Init PROVE TypeOK
  OBVIOUS
<1>1. session \in Users /\ faults \in Nat /\ pending \in BOOLEAN
  BY BoundsAssumption DEF Init, Users
<1>2. server \in ServerType /\ policy \in Policy /\ live \in Policy
  BY BoundsAssumption, PoliciesAssumption, FallbackType DEF Init, ServerType
<1>3. form \in FormType
  BY BoundsAssumption, PoliciesAssumption DEF Init, Blank, FormType, Users
<1>4. save \in [Slots -> SaveType] /\ \A s \in Slots : save[s].pc = "idle"
  BY NoSaveType DEF Init, NoSave
<1>5. /\ sync \in SyncType /\ sync.pc = "idle"
      /\ login \in [Logins -> LoginType] /\ \A l \in Logins : login[l].pc = "idle"
  BY NoLoadType DEF Init, NoLoad
<1> QED
  BY <1>1, <1>2, <1>3, <1>4, <1>5 DEF TypeOK, FormType, ServerType, SaveType, SyncType, LoginType

\* No action takes a variable out of its type.
LEMMA NextTypeOK == TypeOK /\ [Next]_vars => TypeOK'
<1> SUFFICES ASSUME TypeOK, [Next]_vars PROVE TypeOK'
  OBVIOUS
<1> USE DEF loads
<1>1. ASSUME Frame PROVE TypeOK'
  BY <1>1, DrawnType DEF Frame, TypeOK, FormType
<1>2. ASSUME NEW f \in Fields, NEW v \in Values, Edit(f, v) PROVE TypeOK'
  <2>1. form' \in FormType
    BY <1>2, DrawnType DEF Edit, FormType
  <2> QED
    BY <1>2, <2>1 DEF Edit, TypeOK, FormType
<1>3. ASSUME Reset PROVE TypeOK'
  <2>1. form' \in FormType
    BY <1>3, InitFromType DEF Reset, TypeOK
  <2> QED
    BY <1>3, <2>1 DEF Reset, TypeOK, FormType
<1>4. ASSUME SaveClicked PROVE TypeOK'
  <2>1. PICK s \in Slots : save' = [save EXCEPT ![s] = Sent]
    BY <1>4 DEF SaveClicked, Idle
  <2>2. session \in Employees /\ session \in Users
    BY <1>4, UsersAssumption DEF SaveClicked, Users
  <2>3. Sent \in SaveType
    BY <2>2, DrawnType, DiffPatchType, FallbackType DEF Sent, SaveType
  <2>4. save' \in [Slots -> SaveType]
    BY <2>1, <2>3 DEF TypeOK, SaveType
  <2>5. \A t \in Slots : save'[t].pc # "idle" => save'[t].as \in Employees
    BY <2>1, <2>2 DEF TypeOK, Sent
  <2>6. form' \in FormType /\ pending' \in BOOLEAN
    BY <1>4, DrawnType DEF SaveClicked
  <2> QED
    BY <1>4, <2>4, <2>5, <2>6 DEF SaveClicked, TypeOK, FormType, SaveType
<1>5. ASSUME NEW s \in Slots, NEW reach \in Reaches, SaveServed(s, reach) PROVE TypeOK'
  <2>1. server' \in ServerType
    BY <1>5, PatchedType DEF SaveServed, TypeOK
  <2>2. save[s].as \in Employees
    BY <1>5 DEF SaveServed, TypeOK
  <2>3. PolicyOf(server', save[s].as) \in Policy
    BY <2>1, <2>2, PolicyOfType
  <2>4. /\ save' = [save EXCEPT ![s] = save'[s]]
        /\ save'[s] \in SaveType
        /\ save'[s].pc # "idle" => save'[s].as \in Employees
    BY <1>5, <2>2, <2>3, NoSaveType DEF SaveServed, TypeOK, NoSave, SaveType, Users
  <2>5. save' \in [Slots -> SaveType]
    BY <2>4 DEF TypeOK, SaveType
  <2>6. \A t \in Slots : save'[t].pc # "idle" => save'[t].as \in Employees
    BY <2>4 DEF TypeOK
  <2> QED
    BY <1>5, <2>1, <2>5, <2>6 DEF SaveServed, TypeOK, SaveType, ServerType
<1>6. ASSUME NEW s \in Slots, SaveReleases(s) PROVE TypeOK'
  BY <1>6 DEF SaveReleases, TypeOK
<1>7. ASSUME NEW s \in Slots, SavePolicy(s) PROVE TypeOK'
  BY <1>7 DEF SavePolicy, TypeOK
<1>8. ASSUME NEW s \in Slots, SaveLive(s) PROVE TypeOK'
  <2>1. save' \in [Slots -> SaveType]
    BY <1>8, NoSaveType DEF SaveLive, TypeOK, SaveType
  <2>2. \A t \in Slots : save'[t].pc # "idle" => save'[t].as \in Employees
    BY <1>8 DEF SaveLive, TypeOK, NoSave
  <2>3. live' \in Policy
    BY <1>8 DEF SaveLive, TypeOK
  <2> QED
    BY <1>8, <2>1, <2>2, <2>3 DEF SaveLive, TypeOK, SaveType
<1>9. ASSUME NEW s \in Slots, SaveFails(s) PROVE TypeOK'
  <2>1. save' \in [Slots -> SaveType]
    <3>1. save \in [Slots -> SaveType]
      BY DEF TypeOK, SaveType
    <3>2. CASE save' = [save EXCEPT ![s] = NoSave]
      BY <3>1, <3>2, NoSaveType
    <3>3. CASE save' = [save EXCEPT ![s].pc = "late"]
      BY <3>1, <3>3 DEF SaveType
    <3> QED
      BY <1>9, <3>2, <3>3 DEF SaveFails
  <2>2. \A t \in Slots : save'[t].pc # "idle" => save'[t].as \in Employees
    BY <1>9 DEF SaveFails, TypeOK, NoSave
  <2>3. faults' \in Nat
    BY <1>9 DEF SaveFails, Fail, TypeOK
  <2> QED
    BY <1>9, <2>1, <2>2, <2>3 DEF SaveFails, TypeOK, SaveType
<1>10. ASSUME NEW f \in Fields, NEW v \in Values, NEW reach \in Reaches,
              OtherAdmin(f, v, reach)
       PROVE  TypeOK'
  <2>1. server' \in ServerType
    BY <1>10, PatchedType, OneFieldPatch DEF OtherAdmin
  <2> QED
    BY <1>10, <2>1 DEF OtherAdmin, TypeOK, ServerType
<1>11. ASSUME SyncStep \/ SyncFails PROVE TypeOK'
  <2>1. sync \in SyncType /\ server \in ServerType /\ sync.got \in Policy
    BY DEF TypeOK, SyncType, ServerType
  <2>2. sync' \in SyncType /\ (sync'.pc # "idle" => sync'.as \in Employees)
    <3>1. CASE SyncStart
      <4>1. session \in Employees /\ session \in Users
        BY <3>1 DEF SyncStart, TypeOK, Users
      <4> QED
        BY <2>1, <3>1, <4>1 DEF SyncStart, SyncType
    <3>2. CASE SyncAnswered
      <4>1. sync.as \in Employees
        BY <3>2 DEF SyncAnswered, TypeOK
      <4>2. PolicyOf(server, sync.as) \in Policy
        BY <2>1, <4>1, PolicyOfType
      <4> QED
        BY <2>1, <3>2, <4>1, <4>2 DEF SyncAnswered, SyncType
    <3>3. CASE SyncPolicy
      BY <2>1, <3>3 DEF SyncPolicy, SyncType, TypeOK
    <3>4. CASE SyncLive \/ SyncFails
      BY <3>4, NoLoadType DEF SyncLive, SyncFails, NoLoad
    <3> QED
      BY <1>11, <3>1, <3>2, <3>3, <3>4 DEF SyncStep
  <2>3. policy' \in Policy /\ live' \in Policy /\ faults' \in Nat
    BY <1>11, <2>1 DEF SyncStep, SyncStart, SyncAnswered, SyncPolicy, SyncLive, SyncFails, Fail,
                       TypeOK
  <2>4. UNCHANGED <<session, server, form, pending, save, login>>
    BY <1>11 DEF SyncStep, SyncStart, SyncAnswered, SyncPolicy, SyncLive, SyncFails
  <2> QED
    BY <2>2, <2>3, <2>4 DEF TypeOK, SyncType
<1>12. ASSUME NEW l \in Logins, NEW u \in Employees, LoginEnter(l, u) PROVE TypeOK'
  <2>1. u \in Users
    BY DEF Users
  <2>2. login' \in [Logins -> LoginType]
    BY <1>12, <2>1 DEF LoginEnter, TypeOK, LoginType
  <2>3. \A m \in Logins : login'[m].pc # "idle" => login'[m].as \in Employees
    BY <1>12 DEF LoginEnter, TypeOK
  <2> QED
    BY <1>12, <2>1, <2>2, <2>3 DEF LoginEnter, TypeOK, LoginType
<1>13. ASSUME NEW l \in Logins, LoginStep(l) \/ LoginFails(l) PROVE TypeOK'
  <2>1. login \in [Logins -> LoginType] /\ server \in ServerType /\ login[l].got \in Policy
    BY DEF TypeOK, LoginType, ServerType
  <2>2. /\ login' = [login EXCEPT ![l] = login'[l]]
        /\ login'[l] \in LoginType
        /\ login'[l].pc # "idle" => login'[l].as \in Employees
    <3>1. CASE LoginAnswered(l)
      <4>1. login[l].as \in Employees
        BY <3>1 DEF LoginAnswered, TypeOK
      <4>2. PolicyOf(server, login[l].as) \in Policy
        BY <2>1, <4>1, PolicyOfType
      <4> QED
        BY <2>1, <3>1, <4>1, <4>2 DEF LoginAnswered, LoginType
    <3>2. CASE LoginLive(l)
      BY <2>1, <3>2 DEF LoginLive, LoginType, TypeOK
    <3>3. CASE LoginPolicy(l) \/ LoginFails(l)
      BY <2>1, <3>3, NoLoadType DEF LoginPolicy, LoginFails, NoLoad
    <3> QED
      BY <1>13, <3>1, <3>2, <3>3 DEF LoginStep
  <2>3. login' \in [Logins -> LoginType]
    BY <2>1, <2>2
  <2>4. \A m \in Logins : login'[m].pc # "idle" => login'[m].as \in Employees
    BY <2>1, <2>2 DEF TypeOK
  <2>5. policy' \in Policy /\ live' \in Policy /\ faults' \in Nat
    BY <1>13, <2>1 DEF LoginStep, LoginAnswered, LoginLive, LoginPolicy, LoginFails, Fail, TypeOK
  <2>6. UNCHANGED <<session, server, form, pending, save, sync>>
    BY <1>13 DEF LoginStep, LoginAnswered, LoginLive, LoginPolicy, LoginFails
  <2> QED
    BY <2>3, <2>4, <2>5, <2>6 DEF TypeOK, LoginType
<1>14. ASSUME Logout PROVE TypeOK'
  BY <1>14 DEF Logout, TypeOK, Users
<1>15. ASSUME UNCHANGED vars PROVE TypeOK'
  BY <1>15 DEF vars, TypeOK
<1> QED
  BY <1>1, <1>2, <1>3, <1>4, <1>5, <1>6, <1>7, <1>8, <1>9, <1>10, <1>11, <1>12, <1>13,
     <1>14, <1>15 DEF Next, SaveStep

\* Every variable keeps its type.
THEOREM TypeCorrect == Spec => []TypeOK
BY InitTypeOK, NextTypeOK, PTL DEF Spec

-----------------------------------------------------------------------------
(***************************************************************************)
(* The save button                                                         *)
(***************************************************************************)

\* A save is the only one that waits, and the flag goes up and down with it.
LEMMA NextPendingHasSave == TypeOK /\ PendingHasSave /\ [Next]_vars => PendingHasSave'
<1> SUFFICES ASSUME TypeOK, PendingHasSave, [Next]_vars PROVE PendingHasSave'
  OBVIOUS
<1> USE DEF PendingHasSave, Waits, loads
<1>1. ASSUME SaveClicked PROVE PendingHasSave'
  <2>1. PICK s \in Slots : save' = [save EXCEPT ![s] = Sent]
    BY <1>1 DEF SaveClicked, Idle
  <2>2. \A t \in Slots : ~Waits(t)
    BY <1>1 DEF SaveClicked
  <2>3. \A t \in Slots : Waits(t)' <=> t = s
    BY <2>1, <2>2 DEF Sent, TypeOK
  <2> QED
    BY <1>1, <2>3 DEF SaveClicked
<1>2. ASSUME NEW s \in Slots, NEW reach \in Reaches, SaveServed(s, reach) PROVE PendingHasSave'
  BY <1>2 DEF SaveServed, NoSave, TypeOK
<1>3. ASSUME NEW s \in Slots, SaveReleases(s) \/ SaveFails(s) PROVE PendingHasSave'
  <2>1. Waits(s) /\ pending' = FALSE
    BY <1>3 DEF SaveReleases, SaveFails
  <2>2. \A t \in Slots : Waits(t) => t = s
    BY <2>1
  <2>3. \A t \in Slots : save'[t] = save[t] \/ save'[t].pc \in {"policy", "idle", "late"}
    BY <1>3 DEF SaveReleases, SaveFails, NoSave, TypeOK
  <2>4. save'[s].pc \in {"policy", "idle", "late"}
    BY <1>3 DEF SaveReleases, SaveFails, NoSave, TypeOK
  <2>5. \A t \in Slots : ~Waits(t)'
    BY <2>2, <2>3, <2>4
  <2> QED
    BY <2>1, <2>5
<1>4. ASSUME NEW s \in Slots, SavePolicy(s) \/ SaveLive(s) PROVE PendingHasSave'
  <2>1. pending' = pending
    BY <1>4 DEF SavePolicy, SaveLive
  <2>2. save[s].pc \in {"policy", "live"} /\ save'[s].pc \in {"live", "idle"}
    BY <1>4 DEF SavePolicy, SaveLive, NoSave, TypeOK
  <2>3. \A t \in Slots \ {s} : save'[t] = save[t]
    BY <1>4 DEF SavePolicy, SaveLive, TypeOK
  <2>4. \A t \in Slots : Waits(t)' <=> Waits(t)
    BY <2>2, <2>3
  <2> QED
    BY <2>1, <2>4
<1>5. ASSUME \/ Frame \/ Reset \/ SyncStep \/ SyncFails \/ Logout
             \/ \E f \in Fields, v \in Values :
                   Edit(f, v) \/ \E reach \in Reaches : OtherAdmin(f, v, reach)
             \/ \E l \in Logins :
                   LoginStep(l) \/ LoginFails(l) \/ \E u \in Employees : LoginEnter(l, u)
             \/ UNCHANGED vars
      PROVE  PendingHasSave'
  <2>1. pending' = pending /\ save' = save
    BY <1>5 DEF Frame, Reset, SyncStep, SyncStart, SyncAnswered, SyncPolicy, SyncLive,
                SyncFails, LoginStep, LoginAnswered, LoginLive, LoginPolicy, LoginFails,
                Logout, Edit, OtherAdmin, LoginEnter, vars
  <2> QED
    BY <2>1
<1> QED
  BY <1>1, <1>2, <1>3, <1>4, <1>5 DEF Next, SaveStep

\* "Saving" means that exactly one task waits for its answer.
THEOREM SaveIsReleased == Spec => []PendingHasSave
<1>1. Init => PendingHasSave
  BY DEF Init, PendingHasSave, Waits, NoSave
<1> QED
  BY <1>1, NextPendingHasSave, TypeCorrect, PTL DEF Spec

-----------------------------------------------------------------------------
(***************************************************************************)
(* What a save sends                                                       *)
(***************************************************************************)

\* A form just filled differs from the copy in nothing.
LEMMA InitFromIsClean ==
    ASSUME NEW p \in Policy PROVE DOMAIN DiffPatch(InitFrom(p)) \subseteq InitFrom(p).typed
BY DEF InitFrom, DiffPatch

\* Drawing the form adds no difference that nobody typed.
LEMMA DrawnOnlyTyped ==
    ASSUME TypeOK, OnlyTypedIsSent PROVE DOMAIN DiffPatch(Drawn) \subseteq Drawn.typed
BY InitFromIsClean DEF TypeOK, OnlyTypedIsSent, Drawn

\* Every step keeps the differences to what was typed.
LEMMA NextOnlyTyped == TypeOK /\ OnlyTypedIsSent /\ [Next]_vars => OnlyTypedIsSent'
<1> SUFFICES ASSUME TypeOK, OnlyTypedIsSent, [Next]_vars PROVE OnlyTypedIsSent'
  OBVIOUS
<1>1. ASSUME form' = Drawn PROVE OnlyTypedIsSent'
  BY <1>1, DrawnOnlyTyped DEF OnlyTypedIsSent
<1>2. ASSUME Frame \/ SaveClicked PROVE OnlyTypedIsSent'
  BY <1>1, <1>2 DEF Frame, SaveClicked
<1>3. ASSUME NEW f \in Fields, NEW v \in Values, Edit(f, v) PROVE OnlyTypedIsSent'
  <2>1. form' = [Drawn EXCEPT !.value[f] = v, !.typed = @ \cup {f}]
    BY <1>3 DEF Edit
  <2>2. \A g \in Fields \ {f} :
            form'.value[g] = Drawn.value[g] /\ form'.original[g] = Drawn.original[g]
    BY <2>1, DrawnType DEF FormType
  <2>3. form'.typed = Drawn.typed \cup {f}
    BY <2>1, DrawnType DEF FormType
  <2> QED
    BY <2>2, <2>3, DrawnOnlyTyped DEF OnlyTypedIsSent, DiffPatch
<1>4. ASSUME Reset PROVE OnlyTypedIsSent'
  BY <1>4, InitFromIsClean DEF Reset, TypeOK, OnlyTypedIsSent
<1>5. ASSUME \/ SyncStep \/ SyncFails \/ Logout
             \/ \E s \in Slots : SaveStep(s) \/ SaveFails(s)
             \/ \E f \in Fields, v \in Values, reach \in Reaches : OtherAdmin(f, v, reach)
             \/ \E l \in Logins :
                   LoginStep(l) \/ LoginFails(l) \/ \E u \in Employees : LoginEnter(l, u)
             \/ UNCHANGED vars
      PROVE  OnlyTypedIsSent'
  <2>1. form' = form
    BY <1>5 DEF SyncStep, SyncStart, SyncAnswered, SyncPolicy, SyncLive, SyncFails, LoginStep,
                LoginAnswered, LoginLive, LoginPolicy, LoginFails, Logout, SaveStep,
                SaveServed, SaveReleases, SavePolicy, SaveLive, SaveFails, OtherAdmin,
                LoginEnter, vars
  <2> QED
    BY <2>1 DEF OnlyTypedIsSent, DiffPatch
<1> QED
  BY <1>2, <1>3, <1>4, <1>5 DEF Next

\* Nothing is sent but what was typed since the form was filled.
THEOREM OnlyWishesAreSent == Spec => []OnlyTypedIsSent
<1>1. Init => OnlyTypedIsSent
  BY DEF Init, Blank, OnlyTypedIsSent, DiffPatch
<1> QED
  BY <1>1, NextOnlyTyped, TypeCorrect, PTL DEF Spec

-----------------------------------------------------------------------------
(***************************************************************************)
(* What a version says                                                     *)
(***************************************************************************)

Origin == [of |-> form.of, version |-> form.version, value |-> form.original]

\* What the server's policy says, and every copy of what it said.
Answers == {PolicyOf(server, u) : u \in Employees}
Held == {Fallback, policy, live, Origin, sync.got} \cup {login[l].got : l \in Logins}
        \cup {save[s].got : s \in Slots}

\* No copy is ahead of the server, and two that were given for one employee, of one
\* version, are the same; the version alone, without the employee, tells less.
Agree ==
    /\ \A p \in Held : p.version <= server.version
    /\ \A p, q \in Held \cup Answers : p.of = q.of /\ p.version = q.version => p.value = q.value

\* All copies are policies.
LEMMA HeldIsPolicy == ASSUME TypeOK PROVE Held \subseteq Policy
BY FallbackType DEF TypeOK, Held, Origin, Policy

\* What the server answers names the employee and its version.
LEMMA AnswersNamed ==
    ASSUME NEW u \in Employees
    PROVE  /\ PolicyOf(server, u) \in Answers
           /\ PolicyOf(server, u).of = u
           /\ PolicyOf(server, u).version = server.version
BY DEF Answers, PolicyOf

\* Copies come from copies, or from the server, which only makes new versions.
LEMMA AgreeKept ==
    ASSUME TypeOK, Agree,
           \/ server' = server /\ Held' \subseteq Held \cup Answers
           \/ server'.version = server.version + 1 /\ Held' \subseteq Held \cup Answers'
    PROVE  Agree'
<1>1. \A p \in Held : p.version \in Nat
  BY HeldIsPolicy DEF Policy
<1>2. server.version \in Nat
  BY DEF TypeOK
<1>3. CASE server' = server /\ Held' \subseteq Held \cup Answers
  <2>1. Answers' = Answers
    BY <1>3 DEF Answers, PolicyOf
  <2>2. \A p \in Answers : p.version = server.version
    BY DEF Answers, PolicyOf
  <2>3. \A p \in Held' : p.version <= server'.version
    BY <1>2, <1>3, <2>2 DEF Agree
  <2> QED
    BY <1>3, <2>1, <2>3 DEF Agree
<1>4. CASE server'.version = server.version + 1 /\ Held' \subseteq Held \cup Answers'
  <2>1. \A p \in Answers' : p.version = server.version + 1
    BY <1>4 DEF Answers, PolicyOf
  <2>2. \A p, q \in Answers' : p.of = q.of => p = q
    BY DEF Answers, PolicyOf
  <2>3. \A p \in Held : p.version <= server.version
    BY DEF Agree
  <2>4. \A p \in Held, q \in Answers' : p.version # q.version
    BY <1>1, <1>2, <2>1, <2>3
  <2>5. \A p \in Held' : p.version <= server'.version
    BY <1>1, <1>2, <1>4, <2>1, <2>3
  <2>6. Held' \cup Answers' \subseteq Held \cup Answers'
    BY <1>4
  <2>7. \A p, q \in Held : p.of = q.of /\ p.version = q.version => p.value = q.value
    BY DEF Agree
  <2>8. \A p, q \in Held' \cup Answers' :
            p.of = q.of /\ p.version = q.version => p.value = q.value
    BY <2>2, <2>4, <2>6, <2>7
  <2> QED
    BY <2>5, <2>8 DEF Agree
<1> QED
  BY <1>3, <1>4

\* A form filled from the copy originates in the copy.
LEMMA OriginKept ==
    ASSUME TypeOK,
           \/ form' = form \/ form' = Drawn \/ form' = InitFrom(policy)
           \/ \E f \in Fields, v \in Values :
                 form' = [Drawn EXCEPT !.value[f] = v, !.typed = @ \cup {f}]
    PROVE  Origin' \in {Origin, policy}
<1>1. policy = [of |-> policy.of, version |-> policy.version, value |-> policy.value]
  BY DEF TypeOK, Policy
<1>2. \/ form'.of = form.of /\ form'.version = form.version /\ form'.original = form.original
      \/ form'.of = policy.of /\ form'.version = policy.version /\ form'.original = policy.value
  <2>1. \/ Drawn.of = form.of /\ Drawn.version = form.version /\ Drawn.original = form.original
        \/ /\ Drawn.of = policy.of /\ Drawn.version = policy.version
           /\ Drawn.original = policy.value
    BY DEF Drawn, InitFrom
  <2>2. /\ InitFrom(policy).of = policy.of /\ InitFrom(policy).version = policy.version
        /\ InitFrom(policy).original = policy.value
    BY DEF InitFrom
  <2>3. ASSUME NEW f \in Fields, NEW v \in Values
        PROVE  LET fm == [Drawn EXCEPT !.value[f] = v, !.typed = @ \cup {f}]
               IN  fm.of = Drawn.of /\ fm.version = Drawn.version /\ fm.original = Drawn.original
    BY DrawnType DEF FormType
  <2> QED
    BY <2>1, <2>2, <2>3
<1> QED
  BY <1>1, <1>2 DEF Origin

\* Every step keeps the copies in agreement.
LEMMA NextAgree == TypeOK /\ Agree /\ [Next]_vars => Agree'
<1> SUFFICES ASSUME TypeOK, Agree, [Next]_vars PROVE Agree'
  OBVIOUS
<1> USE DEF loads
<1>1. ASSUME \/ Frame \/ Reset
             \/ \E f \in Fields, v \in Values : Edit(f, v)
      PROVE  Agree'
  <2>1. Origin' \in {Origin, policy}
    BY <1>1, OriginKept DEF Frame, Reset, Edit
  <2>2. UNCHANGED <<server, policy, live, sync, login, save>>
    BY <1>1 DEF Frame, Reset, Edit
  <2>3. Held' \subseteq Held
    BY <2>1, <2>2 DEF Held, Fallback
  <2> QED
    BY <2>2, <2>3, AgreeKept
<1>2. ASSUME SaveClicked PROVE Agree'
  <2>1. Origin' \in {Origin, policy}
    BY <1>2, OriginKept DEF SaveClicked
  <2>2. UNCHANGED <<server, policy, live, sync, login>>
    BY <1>2 DEF SaveClicked
  <2>3. \A t \in Slots : save'[t].got \in {save[t].got, Fallback}
    BY <1>2 DEF SaveClicked, Sent, TypeOK
  <2>4. Held' \subseteq Held
    BY <2>1, <2>2, <2>3 DEF Held, Fallback
  <2> QED
    BY <2>2, <2>4, AgreeKept
<1>3. ASSUME NEW s \in Slots, NEW reach \in Reaches, SaveServed(s, reach) PROVE Agree'
  <2>1. server'.version = server.version + 1
    BY <1>3 DEF SaveServed, Patched
  <2>2. UNCHANGED <<policy, live, sync, login, form>>
    BY <1>3 DEF SaveServed
  <2>3. save[s].as \in Employees
    BY <1>3 DEF SaveServed, TypeOK
  <2>4. PolicyOf(server', save[s].as) \in Answers'
    BY <2>3 DEF Answers
  <2>5. \A t \in Slots : save'[t].got \in {save[t].got, Fallback, PolicyOf(server', save[s].as)}
    BY <1>3 DEF SaveServed, NoSave, TypeOK
  <2>6. Held' \subseteq Held \cup Answers'
    BY <2>2, <2>4, <2>5 DEF Held, Fallback, Origin
  <2> QED
    BY <2>1, <2>6, AgreeKept
<1>4. ASSUME NEW s \in Slots,
             SaveReleases(s) \/ SavePolicy(s) \/ SaveLive(s) \/ SaveFails(s)
      PROVE  Agree'
  <2>1. UNCHANGED <<server, sync, login, form>>
    BY <1>4 DEF SaveReleases, SavePolicy, SaveLive, SaveFails
  <2>2. policy' \in {policy, save[s].got} /\ live' \in {live, save[s].got}
    BY <1>4 DEF SaveReleases, SavePolicy, SaveLive, SaveFails
  <2>3. \A t \in Slots : save'[t].got \in {save[t].got, Fallback}
    BY <1>4 DEF SaveReleases, SavePolicy, SaveLive, SaveFails, NoSave, TypeOK
  <2>4. Held' \subseteq Held
    BY <2>1, <2>2, <2>3 DEF Held, Fallback, Origin
  <2> QED
    BY <2>1, <2>4, AgreeKept
<1>5. ASSUME NEW f \in Fields, NEW v \in Values, NEW reach \in Reaches, OtherAdmin(f, v, reach)
      PROVE  Agree'
  <2>1. server'.version = server.version + 1
    BY <1>5 DEF OtherAdmin, Patched
  <2>2. Held' \subseteq Held
    BY <1>5 DEF OtherAdmin, Held, Fallback, Origin
  <2> QED
    BY <2>1, <2>2, AgreeKept
<1>6. ASSUME SyncStep \/ SyncFails PROVE Agree'
  <2>1. UNCHANGED <<server, save, login, form>>
    BY <1>6 DEF SyncStep, SyncStart, SyncAnswered, SyncPolicy, SyncLive, SyncFails
  <2>2. policy' \in {policy, sync.got} /\ live' \in {live, sync.got}
    BY <1>6 DEF SyncStep, SyncStart, SyncAnswered, SyncPolicy, SyncLive, SyncFails
  <2>3. sync'.got \in {sync.got, Fallback} \/ sync'.got \in Answers
    <3>1. CASE SyncAnswered
      <4>1. sync.as \in Employees /\ sync'.got = PolicyOf(server, sync.as)
        BY <3>1 DEF SyncAnswered, TypeOK
      <4> QED
        BY <4>1, AnswersNamed
    <3>2. CASE ~SyncAnswered
      <4>1. sync \in SyncType
        BY DEF TypeOK, SyncType
      <4>2. CASE SyncStart
        BY <4>1, <4>2 DEF SyncStart, SyncType, Fallback
      <4>3. CASE SyncPolicy
        BY <4>1, <4>3 DEF SyncPolicy, SyncType
      <4>4. CASE SyncLive \/ SyncFails
        BY <4>4 DEF SyncLive, SyncFails, NoLoad
      <4> QED
        BY <1>6, <3>2, <4>2, <4>3, <4>4 DEF SyncStep
    <3> QED
      BY <3>1, <3>2
  <2>4. Held' \subseteq Held \cup Answers
    BY <2>1, <2>2, <2>3 DEF Held, Fallback, Origin
  <2> QED
    BY <2>1, <2>4, AgreeKept
<1>7. ASSUME NEW l \in Logins,
             LoginStep(l) \/ LoginFails(l) \/ \E u \in Employees : LoginEnter(l, u)
      PROVE  Agree'
  <2>1. UNCHANGED <<server, save, sync, form>>
    BY <1>7 DEF LoginStep, LoginAnswered, LoginLive, LoginPolicy, LoginFails, LoginEnter
  <2>2. policy' \in {policy, login[l].got} /\ live' \in {live, login[l].got}
    BY <1>7 DEF LoginStep, LoginAnswered, LoginLive, LoginPolicy, LoginFails, LoginEnter
  <2>3. \A m \in Logins : login'[m].got \in {login[m].got, Fallback} \/ login'[m].got \in Answers
    <3>1. CASE LoginAnswered(l)
      <4>1. login[l].as \in Employees
        BY <3>1 DEF LoginAnswered, TypeOK
      <4>2. PolicyOf(server, login[l].as) \in Answers
        BY <4>1, AnswersNamed
      <4>3. \A m \in Logins : login'[m].got \in {login[m].got, PolicyOf(server, login[l].as)}
        BY <3>1 DEF LoginAnswered, TypeOK
      <4> QED
        BY <4>2, <4>3
    <3>2. CASE ~LoginAnswered(l)
      <4>1. login \in [Logins -> LoginType]
        BY DEF TypeOK, LoginType
      <4>2. login'[l].got \in {login[l].got, Fallback}
        <5>1. CASE LoginLive(l)
          BY <4>1, <5>1 DEF LoginLive, LoginType
        <5>2. CASE LoginPolicy(l) \/ LoginFails(l)
          BY <4>1, <5>2 DEF LoginPolicy, LoginFails, NoLoad
        <5>3. CASE \E u \in Employees : LoginEnter(l, u)
          BY <4>1, <5>3 DEF LoginEnter, LoginType
        <5> QED
          BY <1>7, <3>2, <5>1, <5>2, <5>3 DEF LoginStep
      <4>3. \A m \in Logins \ {l} : login'[m] = login[m]
        BY <1>7, <3>2, <4>1 DEF LoginStep, LoginLive, LoginPolicy, LoginFails, LoginEnter
      <4> QED
        BY <4>2, <4>3
    <3> QED
      BY <3>1, <3>2
  <2>4. Held' \subseteq Held \cup Answers
    BY <2>1, <2>2, <2>3 DEF Held, Fallback, Origin
  <2> QED
    BY <2>1, <2>4, AgreeKept
<1>8. ASSUME Logout \/ UNCHANGED vars PROVE Agree'
  <2>1. UNCHANGED <<server, policy, live, form, sync, login, save>>
    BY <1>8 DEF Logout, vars
  <2>2. Held' \subseteq Held
    BY <2>1 DEF Held, Origin, Fallback
  <2> QED
    BY <2>1, <2>2, AgreeKept
<1> QED
  BY <1>1, <1>2, <1>3, <1>4, <1>5, <1>6, <1>7, <1>8 DEF Next, SaveStep

\* At every moment employee and version tell one copy of the policy from another.
THEOREM VersionsAgree == Spec => []Agree
<1>1. Init => Agree
  <2> SUFFICES ASSUME Init PROVE Agree
    OBVIOUS
  <2>1. \A p \in Held : p = Fallback
    BY DEF Init, Held, Origin, Blank, NoSave, NoLoad, Fallback
  <2>2. server.version = 1 /\ Fallback.version = 0
    BY DEF Init, Fallback
  <2>3. \A p \in Answers : p.version = 1
    BY <2>2 DEF Answers, PolicyOf
  <2>4. \A p, q \in Answers : p.of = q.of => p = q
    BY DEF Answers, PolicyOf
  <2> QED
    BY <2>1, <2>2, <2>3, <2>4 DEF Agree
<1> QED
  BY <1>1, NextAgree, TypeCorrect, PTL DEF Spec

\* A form of the copy's version and employee has the copy as its originals.
THEOREM VersionIsEnough == Spec => []VersionNamesOriginal
<1>1. TypeOK /\ Agree => VersionNamesOriginal
  <2>1. Origin \in Held /\ policy \in Held
    BY DEF Held
  <2>2. Origin.of = form.of /\ Origin.version = form.version /\ Origin.value = form.original
    BY DEF Origin
  <2> QED
    BY <2>1, <2>2 DEF Agree, VersionNamesOriginal
<1> QED
  BY <1>1, VersionsAgree, TypeCorrect, PTL

-----------------------------------------------------------------------------
(***************************************************************************)
(* What has arrived stays: PolicyConverges and FormFollows ask that the    *)
(* copy, LiveStatus and the form end up as the server's policy.  That they *)
(* get there takes fairness; that they stay there does not.                *)
(***************************************************************************)

Own == PolicyOf(server, session)

\* The copy and LiveStatus are what the server's policy says to the employee who is
\* logged in, whatever a task still has to store is so too, and whoever still waits
\* for an answer asked for that employee.
Arrived ==
    /\ session \in Employees
    /\ policy = Own
    /\ live = Own
    /\ \A s \in Slots : save[s].pc \in {"answered", "policy", "live"} => save[s].got = Own
    /\ sync.pc # "idle" => sync.as = session
    /\ sync.pc \in {"policy", "live"} => sync.got = Own
    /\ \A l \in Logins : /\ login[l].pc # "idle" => login[l].as = session
                         /\ login[l].pc \in {"live", "policy"} => login[l].got = Own

\* The form was filled with a policy of the server's version, for this employee or
\* for the one before.
Filled == form.initialized /\ form.version = server.version

\* While the server's policy is the same and the employee stays, no answer, in
\* whatever order the answers are stored, takes the copy or LiveStatus back to
\* another one: once the answers for the employee before have come in, nothing more
\* of them turns up.
CopyStays == [][Arrived /\ server' = server /\ session' = session => Arrived']_vars

\* And the form of an administrator at work is left alone: it is not filled again
\* by anything but a reset, and changes where something is typed; a logout and the
\* login of another employee leave it, too.
FormStays ==
    [][Arrived /\ Filled /\ server' = server =>
        (/\ Filled'
         /\ \/ form' = form
            \/ Reset
            \/ \E f \in Fields, v \in Values : form' = [form EXCEPT !.value[f] = v,
                                                                   !.typed = @ \cup {f}])]_vars

\* No step brings back an older policy, or another employee's.
LEMMA NextArrived ==
    ASSUME TypeOK, Arrived, [Next]_vars, server' = server, session' = session PROVE Arrived'
<1> USE DEF loads, Arrived
<1>0. Own' = Own
  BY DEF Own, PolicyOf
<1>1. ASSUME \/ Frame \/ Reset \/ Logout
             \/ \E f \in Fields, v \in Values :
                   Edit(f, v) \/ \E reach \in Reaches : OtherAdmin(f, v, reach)
             \/ UNCHANGED vars
      PROVE  Arrived'
  <2>1. UNCHANGED <<policy, live, save, sync, login>>
    BY <1>1 DEF Frame, Reset, Logout, Edit, OtherAdmin, vars
  <2> QED
    BY <1>0, <2>1
<1>2. ASSUME SaveClicked PROVE Arrived'
  <2>1. \A t \in Slots : save'[t] = save[t] \/ save'[t].pc = "sent"
    BY <1>2 DEF SaveClicked, Sent, TypeOK
  <2> QED
    BY <1>0, <1>2, <2>1 DEF SaveClicked
<1>3. ASSUME NEW s \in Slots, NEW reach \in Reaches, SaveServed(s, reach) PROVE Arrived'
  <2>1. server'.version = server.version + 1 /\ server.version \in Nat
    BY <1>3 DEF SaveServed, Patched, TypeOK
  <2> QED
    BY <2>1
<1>4. ASSUME NEW s \in Slots, SaveReleases(s) \/ SavePolicy(s) PROVE Arrived'
  <2>1. policy' \in {policy, save[s].got} /\ save[s].got = Own
    <3>1. save[s].pc \in {"answered", "policy"} /\ policy' \in {policy, save[s].got}
      BY <1>4 DEF SaveReleases, SavePolicy
    <3>2. \A t \in Slots : save[t].pc \in {"answered", "policy", "live"} => save[t].got = Own
      BY DEF Arrived
    <3> QED
      BY <3>1, <3>2
  <2>2. \A t \in Slots : save'[t].got = save[t].got
    <3>1. save \in [Slots -> SaveType]
      BY DEF TypeOK, SaveType
    <3>2. save' = [save EXCEPT ![s].pc = "policy"] \/ save' = [save EXCEPT ![s].pc = "live"]
      BY <1>4 DEF SaveReleases, SavePolicy
    <3> QED
      BY <3>1, <3>2 DEF SaveType
  <2>3. \A t \in Slots \ {s} : save'[t] = save[t]
    BY <1>4 DEF SaveReleases, SavePolicy, TypeOK
  <2>4. UNCHANGED <<live, sync, login>>
    BY <1>4 DEF SaveReleases, SavePolicy
  <2> QED
    BY <1>0, <2>1, <2>2, <2>3, <2>4
<1>5. ASSUME NEW s \in Slots, SaveLive(s) PROVE Arrived'
  <2>1. live' = Own
    BY <1>5 DEF SaveLive
  <2>2. \A t \in Slots : save'[t] = save[t] \/ save'[t].pc = "idle"
    BY <1>5 DEF SaveLive, NoSave, TypeOK
  <2> QED
    BY <1>0, <1>5, <2>1, <2>2 DEF SaveLive
<1>6. ASSUME NEW s \in Slots, SaveFails(s) PROVE Arrived'
  <2>1. \A t \in Slots : save'[t] = save[t] \/ save'[t].pc \in {"idle", "late"}
    BY <1>6 DEF SaveFails, NoSave, TypeOK
  <2> QED
    BY <1>0, <1>6, <2>1 DEF SaveFails
<1>7. ASSUME SyncStep \/ SyncFails PROVE Arrived'
  <2>1. UNCHANGED <<save, login>>
    BY <1>7 DEF SyncStep, SyncStart, SyncAnswered, SyncPolicy, SyncLive, SyncFails
  <2>2. sync \in SyncType
    BY DEF TypeOK, SyncType
  <2>3. policy' = Own /\ live' = Own
    <3>1. \/ policy' = policy /\ live' = live
          \/ sync.pc = "policy" /\ policy' = sync.got /\ live' = live
          \/ sync.pc = "live" /\ policy' = policy /\ live' = sync.got
      BY <1>7 DEF SyncStep, SyncStart, SyncAnswered, SyncPolicy, SyncLive, SyncFails
    <3> QED
      BY <3>1
  <2>4. /\ sync'.pc # "idle" => sync'.as = session
        /\ sync'.pc \in {"policy", "live"} => sync'.got = Own
    <3>1. CASE SyncStart
      BY <2>2, <3>1 DEF SyncStart, SyncType
    <3>2. CASE SyncAnswered
      BY <2>2, <3>2 DEF SyncAnswered, SyncType, Own
    <3>3. CASE SyncPolicy
      BY <2>2, <3>3 DEF SyncPolicy, SyncType
    <3>4. CASE SyncLive \/ SyncFails
      BY <3>4 DEF SyncLive, SyncFails, NoLoad
    <3> QED
      BY <1>7, <3>1, <3>2, <3>3, <3>4 DEF SyncStep
  <2> QED
    BY <1>0, <2>1, <2>3, <2>4
<1>8. ASSUME NEW l \in Logins, LoginStep(l) \/ LoginFails(l) PROVE Arrived'
  <2>1. UNCHANGED <<save, sync>>
    BY <1>8 DEF LoginStep, LoginAnswered, LoginLive, LoginPolicy, LoginFails
  <2>2. login \in [Logins -> LoginType]
    BY DEF TypeOK, LoginType
  <2>3. /\ login[l].pc # "idle" => login[l].as = session
        /\ login[l].pc \in {"live", "policy"} => login[l].got = Own
    BY DEF Arrived
  <2>4. policy' = Own /\ live' = Own
    <3>1. \/ policy' = policy /\ live' = live
          \/ login[l].pc = "policy" /\ policy' = login[l].got /\ live' = live
          \/ login[l].pc = "live" /\ policy' = policy /\ live' = login[l].got
      BY <1>8 DEF LoginStep, LoginAnswered, LoginLive, LoginPolicy, LoginFails
    <3> QED
      BY <2>3, <3>1
  <2>5. \A m \in Logins \ {l} : login'[m] = login[m]
    BY <1>8, <2>2 DEF LoginStep, LoginAnswered, LoginLive, LoginPolicy, LoginFails
  <2>6. /\ login'[l].pc # "idle" => login'[l].as = session
        /\ login'[l].pc \in {"live", "policy"} => login'[l].got = Own
    <3>1. CASE LoginAnswered(l)
      <4>1. /\ login'[l].as = login[l].as /\ login[l].pc # "idle"
            /\ login'[l].got = PolicyOf(server, login[l].as)
        BY <2>2, <3>1 DEF LoginAnswered, LoginType
      <4> QED
        BY <2>3, <4>1 DEF Own
    <3>2. CASE LoginLive(l)
      <4>1. /\ login'[l].as = login[l].as /\ login[l].pc = "live"
            /\ login'[l].got = login[l].got
        BY <2>2, <3>2 DEF LoginLive, LoginType
      <4> QED
        BY <2>3, <4>1
    <3>3. CASE LoginPolicy(l) \/ LoginFails(l)
      BY <2>2, <3>3 DEF LoginPolicy, LoginFails, NoLoad
    <3> QED
      BY <1>8, <3>1, <3>2, <3>3 DEF LoginStep
  <2> QED
    BY <1>0, <2>1, <2>4, <2>5, <2>6
<1>9. ~ \E l \in Logins, u \in Employees : LoginEnter(l, u)
  BY UsersAssumption DEF LoginEnter
<1> QED
  BY <1>1, <1>2, <1>3, <1>4, <1>5, <1>6, <1>7, <1>8, <1>9 DEF Next, SaveStep

\* Drawing fills no form again whose version is that of the copy.
LEMMA DrawnStays == ASSUME policy.version = server.version, Filled PROVE Drawn = form
BY DEF Filled, Drawn

\* No step touches a form that is up to date, but a reset and the keyboard.
LEMMA NextForm ==
    ASSUME TypeOK, Arrived, Filled, [Next]_vars, server' = server
    PROVE  \/ form' = form
           \/ Reset
           \/ \E f \in Fields, v \in Values : form' = [form EXCEPT !.value[f] = v,
                                                                  !.typed = @ \cup {f}]
<1>1. Drawn = form
  BY DrawnStays DEF Arrived, Own, PolicyOf
<1>2. ASSUME Frame \/ SaveClicked PROVE form' = form
  BY <1>1, <1>2 DEF Frame, SaveClicked
<1>3. ASSUME NEW f \in Fields, NEW v \in Values, Edit(f, v)
      PROVE  form' = [form EXCEPT !.value[f] = v, !.typed = @ \cup {f}]
  BY <1>1, <1>3 DEF Edit
<1>4. ASSUME \/ SyncStep \/ SyncFails \/ Logout
             \/ \E s \in Slots : SaveStep(s) \/ SaveFails(s)
             \/ \E f \in Fields, v \in Values, reach \in Reaches : OtherAdmin(f, v, reach)
             \/ \E l \in Logins :
                   LoginStep(l) \/ LoginFails(l) \/ \E u \in Employees : LoginEnter(l, u)
             \/ UNCHANGED vars
      PROVE  form' = form
  BY <1>4 DEF SyncStep, SyncStart, SyncAnswered, SyncPolicy, SyncLive, SyncFails, LoginStep,
              LoginAnswered, LoginLive, LoginPolicy, LoginFails, Logout, SaveStep, SaveServed,
              SaveReleases, SavePolicy, SaveLive, SaveFails, OtherAdmin, LoginEnter, vars
<1> QED
  BY <1>2, <1>3, <1>4 DEF Next

\* The policy that has arrived stays, and so does what the administrator types.
THEOREM PolicyStaysRight == Spec => CopyStays /\ FormStays
<1>1. TypeOK /\ [Next]_vars =>
        [Arrived /\ server' = server /\ session' = session => Arrived']_vars
  BY NextArrived
<1>2. ASSUME TypeOK, [Next]_vars, Arrived, Filled, server' = server
      PROVE  /\ Filled'
             /\ \/ form' = form
                \/ Reset
                \/ \E f \in Fields, v \in Values : form' = [form EXCEPT !.value[f] = v,
                                                                       !.typed = @ \cup {f}]
  <2>1. \/ form' = form
        \/ Reset
        \/ \E f \in Fields, v \in Values : form' = [form EXCEPT !.value[f] = v,
                                                               !.typed = @ \cup {f}]
    BY <1>2, NextForm
  <2>2. form'.initialized /\ form'.version = server.version
    <3>1. CASE Reset
      BY <1>2, <3>1 DEF Reset, InitFrom, Arrived, Own, PolicyOf
    <3>2. CASE form' = form
      BY <1>2, <3>2 DEF Filled
    <3>3. ASSUME NEW f \in Fields, NEW v \in Values,
                 form' = [form EXCEPT !.value[f] = v, !.typed = @ \cup {f}]
          PROVE  form'.initialized /\ form'.version = server.version
      BY <1>2, <3>3 DEF Filled, TypeOK
    <3> QED
      BY <2>1, <3>1, <3>2, <3>3
  <2> QED
    BY <1>2, <2>1, <2>2 DEF Filled
<1>3. TypeOK /\ [Next]_vars =>
        [Arrived /\ Filled /\ server' = server =>
            (/\ Filled'
             /\ \/ form' = form
                \/ Reset
                \/ \E f \in Fields, v \in Values : form' = [form EXCEPT !.value[f] = v,
                                                                       !.typed = @ \cup {f}])]_vars
  BY <1>2
<1> QED
  BY <1>1, <1>3, TypeCorrect, PTL DEF Spec, CopyStays, FormStays

=============================================================================
