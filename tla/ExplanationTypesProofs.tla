------------------------ MODULE ExplanationTypesProofs ------------------------
(***************************************************************************)
(* Proofs about ExplanationTypes, for any number of employees, companies,  *)
(* types and calls: its types, that the tab is disabled exactly while one  *)
(* call holds it, and that types that are right stay right.                *)
(***************************************************************************)
EXTENDS ExplanationTypes, TLAPS

-----------------------------------------------------------------------------
(***************************************************************************)
(* Types                                                                   *)
(***************************************************************************)

CallType == [pc : {"idle", "sent", "refresh", "listing", "listed", "release", "tell"},
             ask : Asked, of : Users, got : Lists]
InfoType == [pc : {"idle", "sent", "answered"}, of : Users, got : Lists]
LoginType == [pc : {"idle", "auth", "sent", "answered"}, of : Users, got : Lists]

\* An idle task has the type of one.
LEMMA IdleTypes == NoCall \in CallType /\ NoLoad \in InfoType /\ NoLoad \in LoginType
BY DEF NoCall, NoLoad, CallType, InfoType, LoginType, Asked, Users, Lists

\* An employee's company is a company.
LEMMA CompanyType == ASSUME NEW e \in Employees PROVE Company[e] \in Companies
BY DEF Companies

\* An employee's list is a list.
LEMMA ListOfType == ASSUME TypeOK, NEW e \in Employees PROVE ListOf(e) \in Lists
BY CompanyType DEF TypeOK, ListOf, Lists

\* A change at the server leaves it with lists.
LEMMA ChangeType ==
    ASSUME TypeOK, NEW c, NEW ask, Change(c, ask)
    PROVE  server' \in [Companies -> List] /\ changes' \in Nat
<1>1. server' \in [Companies -> List]
  BY DEF Change, TypeOK
<1>2. changes' \in Nat
  BY DEF Change, TypeOK
<1> QED
  BY <1>1, <1>2

\* What each call is, and what a call under way knows.
CallsOK ==
    /\ call \in [Slots -> CallType]
    /\ \A s \in Slots : call[s].pc \in {"sent", "listing", "listed"} => call[s].of \in Employees

OthersOK ==
    /\ session \in Users
    /\ server \in [Companies -> List]
    /\ cache \in Lists
    /\ leaving \in BOOLEAN
    /\ pending \in BOOLEAN
    /\ message \in {"none", "calling", "told"}
    /\ userInfo \in InfoType
    /\ userInfo.pc # "idle" => userInfo.of \in Employees
    /\ login \in LoginType
    /\ login.pc # "idle" => login.of \in Employees
    /\ changes \in Nat
    /\ faults \in Nat

\* The type invariant is its two parts.
LEMMA TypeParts == TypeOK <=> CallsOK /\ OthersOK
BY DEF TypeOK, CallsOK, OthersOK, CallType, InfoType, LoginType

\* A call that moves on keeps its type.
LEMMA GotoType ==
    ASSUME CallsOK, NEW s \in Slots, NEW pc \in {"refresh", "release", "tell"}, Goto(s, pc)
    PROVE  CallsOK'
BY DEF CallsOK, Goto, CallType

\* Init has the types.
LEMMA InitTypeOK == Init => TypeOK
<1> SUFFICES ASSUME Init PROVE CallsOK /\ OthersOK
  BY TypeParts
<1>1. CallsOK
  BY IdleTypes DEF Init, CallsOK, NoCall
<1>2. /\ session \in Users /\ server \in [Companies -> List] /\ cache \in Lists
      /\ message \in {"none", "calling", "told"} /\ changes \in Nat /\ faults \in Nat
  BY TypesAssumption, BoundsAssumption DEF Init, Users, Lists
<1>3. leaving \in BOOLEAN /\ pending \in BOOLEAN
  BY DEF Init
<1>4. /\ userInfo \in InfoType /\ userInfo.pc = "idle"
      /\ login \in LoginType /\ login.pc = "idle"
  BY IdleTypes DEF Init, NoLoad
<1> QED
  BY <1>1, <1>2, <1>3, <1>4 DEF OthersOK

\* A step of a CMS call keeps the types.
LEMMA CallStepTypeOK ==
    ASSUME TypeOK, NEW s \in Slots, CallStep(s) \/ RefreshFails(s)
    PROVE  CallsOK' /\ OthersOK'
<1> USE DEF form, loads
<1>t. CallsOK /\ OthersOK
  BY TypeParts
<1>1. CASE CallServed(s)
  <2>1. CallsOK'
    BY <1>1, <1>t, GotoType DEF CallServed
  <2>2. server' \in [Companies -> List] /\ changes' \in Nat
    BY <1>1, <1>t, ChangeType DEF CallServed, OthersOK
  <2> QED
    BY <1>1, <1>t, <2>1, <2>2 DEF CallServed, OthersOK
<1>2. CASE CallFails(s) \/ RefreshFails(s)
  <2>1. CallsOK'
    BY <1>2, <1>t, GotoType DEF CallFails, RefreshFails
  <2>2. faults' \in Nat
    BY <1>2, <1>t DEF CallFails, RefreshFails, Fail, OthersOK
  <2> QED
    BY <1>2, <1>t, <2>1, <2>2 DEF CallFails, RefreshFails, OthersOK
<1>3. CASE Refresh(s)
  <2>1. CallsOK'
    BY <1>3, <1>t DEF Refresh, CallsOK, CallType, OthersOK, Users
  <2> QED
    BY <1>3, <1>t, <2>1 DEF Refresh, OthersOK
<1>4. CASE RefreshServed(s)
  <2>1. ListOf(call[s].of) \in Lists
    BY <1>4, <1>t, ListOfType DEF RefreshServed, CallsOK
  <2>2. CallsOK'
    BY <1>4, <1>t, <2>1 DEF RefreshServed, CallsOK, CallType
  <2> QED
    BY <1>4, <1>t, <2>2 DEF RefreshServed, OthersOK
<1>5. CASE RefreshStored(s)
  <2>1. CallsOK'
    BY <1>5, <1>t, GotoType DEF RefreshStored
  <2>2. cache' \in Lists
    BY <1>5, <1>t DEF RefreshStored, CallsOK, CallType
  <2> QED
    BY <1>5, <1>t, <2>1, <2>2 DEF RefreshStored, OthersOK
<1>6. CASE Release(s)
  <2>1. CallsOK'
    BY <1>6, <1>t, GotoType DEF Release
  <2>2. pending' \in BOOLEAN
    BY <1>6 DEF Release
  <2> QED
    BY <1>6, <1>t, <2>1, <2>2 DEF Release, OthersOK
<1>7. CASE Tell(s)
  <2>1. CallsOK'
    BY <1>7, <1>t, IdleTypes DEF Tell, CallsOK, NoCall
  <2> QED
    BY <1>7, <1>t, <2>1 DEF Tell, OthersOK
<1> QED
  BY <1>1, <1>2, <1>3, <1>4, <1>5, <1>6, <1>7 DEF CallStep

\* Every step keeps the types.
LEMMA NextTypeOK == TypeOK /\ [Next]_vars => TypeOK'
<1> SUFFICES ASSUME TypeOK, [Next]_vars PROVE CallsOK' /\ OthersOK'
  BY DEF TypeOK, CallsOK, OthersOK, CallType, InfoType, LoginType
<1> USE DEF form, loads
<1>t. CallsOK /\ OthersOK
  BY TypeParts
<1>1. CASE \E s \in Slots : CallStep(s) \/ RefreshFails(s)
  BY <1>1, CallStepTypeOK
<1>2. ASSUME NEW s \in Slots, NEW ask \in Asked, CallClicked(s, ask) PROVE CallsOK' /\ OthersOK'
  <2>1. session \in Employees /\ session \in Users
    BY <1>2, UsersAssumption DEF CallClicked, Users
  <2>2. [NoCall EXCEPT !.pc = "sent", !.ask = ask, !.of = session] \in CallType
    BY <2>1, IdleTypes DEF CallType, NoCall
  <2>3. call' \in [Slots -> CallType]
    BY <1>2, <1>t, <2>2 DEF CallClicked, CallsOK
  <2>4. \A t \in Slots : call'[t].pc \in {"sent", "listing", "listed"} => call'[t].of \in Employees
    BY <1>2, <1>t, <2>1 DEF CallClicked, CallsOK, NoCall
  <2>5. pending' \in BOOLEAN
    BY <1>2 DEF CallClicked
  <2> QED
    BY <1>2, <1>t, <2>3, <2>4, <2>5 DEF CallClicked, CallsOK, OthersOK
<1>3. ASSUME CallRefused PROVE CallsOK' /\ OthersOK'
  BY <1>3, <1>t DEF CallRefused, CallsOK, OthersOK
<1>4. ASSUME NEW c \in Companies, NEW ask \in Asked, OtherAdmin(c, ask) PROVE CallsOK' /\ OthersOK'
  <2>1. server' \in [Companies -> List] /\ changes' \in Nat
    BY <1>4, ChangeType DEF OtherAdmin
  <2> QED
    BY <1>4, <1>t, <2>1 DEF OtherAdmin, CallsOK, OthersOK
<1>5. ASSUME NEW u \in Employees, LoginBegin(u) PROVE CallsOK' /\ OthersOK'
  <2>1. login' \in LoginType /\ login'.of \in Employees
    BY <1>5, IdleTypes DEF LoginBegin, NoLoad, LoginType, Users
  <2> QED
    BY <1>5, <1>t, <2>1 DEF LoginBegin, CallsOK, OthersOK, Lists
<1>6. ASSUME LoginStep \/ LoginFails PROVE CallsOK' /\ OthersOK'
  <2>1. CASE LoginEnter
    BY <2>1, <1>t DEF LoginEnter, CallsOK, OthersOK, LoginType
  <2>2. CASE LoginServed
    <3>1. ListOf(login.of) \in Lists
      BY <2>2, <1>t, ListOfType DEF LoginServed, OthersOK
    <3> QED
      BY <2>2, <1>t, <3>1 DEF LoginServed, CallsOK, OthersOK, LoginType
  <2>3. CASE LoginStored
    BY <2>3, <1>t, IdleTypes DEF LoginStored, CallsOK, OthersOK, LoginType, NoLoad
  <2>4. CASE LoginFails
    BY <2>4, <1>t, IdleTypes DEF LoginFails, Fail, CallsOK, OthersOK, NoLoad
  <2> QED
    BY <1>6, <2>1, <2>2, <2>3, <2>4 DEF LoginStep
<1>7. ASSUME LogoutClear \/ LogoutSession PROVE CallsOK' /\ OthersOK'
  <2>1. leaving' \in BOOLEAN
    BY <1>7 DEF LogoutClear, LogoutSession
  <2> QED
    BY <1>7, <1>t, <2>1 DEF LogoutClear, LogoutSession, CallsOK, OthersOK, Lists, Users
<1>8. ASSUME InfoStep \/ InfoFails PROVE CallsOK' /\ OthersOK'
  <2>1. CASE InfoStart
    <3>1. userInfo' \in InfoType /\ userInfo'.of \in Employees
      BY <2>1, <1>t, IdleTypes DEF InfoStart, OthersOK, NoLoad, InfoType, Users
    <3> QED
      BY <2>1, <1>t, <3>1 DEF InfoStart, CallsOK, OthersOK
  <2>2. CASE InfoServed
    <3>1. ListOf(userInfo.of) \in Lists
      BY <2>2, <1>t, ListOfType DEF InfoServed, OthersOK
    <3> QED
      BY <2>2, <1>t, <3>1 DEF InfoServed, CallsOK, OthersOK, InfoType
  <2>3. CASE InfoStored
    BY <2>3, <1>t, IdleTypes DEF InfoStored, CallsOK, OthersOK, InfoType, NoLoad
  <2>4. CASE InfoFails
    BY <2>4, <1>t, IdleTypes DEF InfoFails, Fail, CallsOK, OthersOK, NoLoad
  <2> QED
    BY <1>8, <2>1, <2>2, <2>3, <2>4 DEF InfoStep
<1>9. ASSUME UNCHANGED vars PROVE CallsOK' /\ OthersOK'
  BY <1>9, <1>t DEF vars, CallsOK, OthersOK
<1> QED
  BY <1>1, <1>2, <1>3, <1>4, <1>5, <1>6, <1>7, <1>8, <1>9 DEF Next

\* Every variable keeps its type.
THEOREM TypeCorrect == Spec => []TypeOK
BY InitTypeOK, NextTypeOK, PTL DEF Spec

-----------------------------------------------------------------------------
(***************************************************************************)
(* The disabled tab                                                        *)
(***************************************************************************)

\* A step that changes no call, nor the flag, and does not begin to call.
LEMMA FlagKept ==
    ASSUME PendingHasCall, call' = call, pending' = pending,
           message' = message \/ message' = "told"
    PROVE  PendingHasCall'
BY DEF PendingHasCall, Holds

\* A call that goes on holding what it held.
LEMMA HoldsOn ==
    ASSUME TypeOK, PendingHasCall, NEW s \in Slots, Holds(s),
           \A t \in Slots \ {s} : call'[t] = call[t],
           call'[s].pc \notin {"idle", "tell"}, pending' = pending, message' = message
    PROVE  PendingHasCall'
BY DEF PendingHasCall, Holds

\* Every step keeps a call under way as long as the tab waits.
LEMMA NextPendingHasCall == TypeOK /\ PendingHasCall /\ [Next]_vars => PendingHasCall'
<1> SUFFICES ASSUME TypeOK, PendingHasCall, [Next]_vars PROVE PendingHasCall'
  OBVIOUS
<1> USE DEF form, loads
<1>t. CallsOK
  BY TypeParts
<1>1. ASSUME NEW s \in Slots,
             \/ CallServed(s) \/ CallFails(s) \/ Refresh(s) \/ RefreshServed(s)
             \/ RefreshStored(s) \/ RefreshFails(s)
      PROVE  PendingHasCall'
  <2>1. Holds(s) /\ pending' = pending /\ message' = message
    BY <1>1 DEF CallServed, CallFails, Refresh, RefreshServed, RefreshStored, RefreshFails, Holds
  <2>2. \A t \in Slots \ {s} : call'[t] = call[t]
    BY <1>1, <1>t DEF CallServed, CallFails, Refresh, RefreshServed, RefreshStored, RefreshFails,
                      Goto, CallsOK
  <2>3. call'[s].pc \in {"refresh", "release", "listing", "listed"}
    BY <1>1, <1>t DEF CallServed, CallFails, Refresh, RefreshServed, RefreshStored, RefreshFails,
                      Goto, CallsOK, CallType
  <2> QED
    BY <2>1, <2>2, <2>3, HoldsOn
<1>2. ASSUME NEW s \in Slots, NEW ask \in Asked, CallClicked(s, ask) PROVE PendingHasCall'
  <2>1. \A t \in Slots : ~Holds(t)
    BY <1>2 DEF CallClicked, PendingHasCall
  <2>2. call'[s].pc = "sent" /\ \A t \in Slots \ {s} : call'[t] = call[t]
    BY <1>2, <1>t DEF CallClicked, CallsOK, NoCall
  <2>3. pending' = TRUE
    BY <1>2 DEF CallClicked
  <2> QED
    BY <2>1, <2>2, <2>3 DEF PendingHasCall, Holds
<1>3. ASSUME NEW s \in Slots, Release(s) PROVE PendingHasCall'
  <2>1. Holds(s)
    BY <1>3 DEF Release, Holds
  <2>2. call'[s].pc = "tell" /\ \A t \in Slots \ {s} : call'[t] = call[t]
    BY <1>3, <1>t DEF Release, Goto, CallsOK, CallType
  <2>3. pending' = FALSE /\ message' = message
    BY <1>3 DEF Release
  <2> QED
    BY <2>1, <2>2, <2>3 DEF PendingHasCall, Holds
<1>4. ASSUME NEW s \in Slots, Tell(s) PROVE PendingHasCall'
  <2>1. ~Holds(s)
    BY <1>4 DEF Tell, Holds
  <2>2. call'[s].pc = "idle" /\ \A t \in Slots \ {s} : call'[t] = call[t]
    BY <1>4, <1>t DEF Tell, CallsOK, NoCall
  <2>3. pending' = pending /\ message' = "told"
    BY <1>4 DEF Tell
  <2> QED
    BY <2>1, <2>2, <2>3 DEF PendingHasCall, Holds
<1>5. ASSUME \/ CallRefused
             \/ \E c \in Companies, ask \in Asked : OtherAdmin(c, ask)
             \/ \E u \in Employees : LoginBegin(u)
             \/ LoginStep \/ LoginFails \/ LogoutClear \/ LogoutSession
             \/ InfoStep \/ InfoFails
             \/ UNCHANGED vars
      PROVE  PendingHasCall'
  BY <1>5, FlagKept DEF CallRefused, OtherAdmin, LoginBegin, LoginStep, LoginEnter, LoginServed,
                        LoginStored, LoginFails, LogoutClear, LogoutSession, InfoStep, InfoStart,
                        InfoServed, InfoStored, InfoFails, vars
<1> QED
  BY <1>1, <1>2, <1>3, <1>4, <1>5 DEF Next, CallStep

\* The tab is disabled exactly while one call holds it, and "calling ..." is always
\* replaced.
THEOREM TabIsReleased == Spec => []PendingHasCall
<1>1. Init => PendingHasCall
  BY DEF Init, NoCall, PendingHasCall, Holds
<1> QED
  BY <1>1, NextPendingHasCall, TypeCorrect, PTL DEF Spec

-----------------------------------------------------------------------------
(***************************************************************************)
(* Types that are right stay right                                         *)
(***************************************************************************)

\* A task that will fill the cache has asked for a list of the company of e, and
\* one that has been answered has the list as it is now.
Colleague(u, e) == u \in Employees /\ Company[u] = Company[e]
Fresh(task, asking, e) ==
    /\ task.pc \in asking => Colleague(task.of, e)
    /\ task.pc \in {"answered", "listed"} => task.got = ListOf(e)

\* e, who is logged in, is offered the types of the company as they are.
Current(e) ==
    /\ session = e
    /\ ~leaving
    /\ cache = ListOf(e)
    /\ Fresh(userInfo, {"sent"}, e)
    /\ Fresh(login, {"auth", "sent"}, e)
    /\ \A s \in Slots : Fresh(call[s], {"listing"}, e)

\* What e is offered remains the company's list, whichever answers come in and in
\* whichever order, until a logout begins or the list changes.
CurrentStaysCurrent ==
    [][\A e \in Employees :
          /\ Current(e) /\ session' = e /\ ~leaving' /\ server'[Company[e]] = server[Company[e]]
          => Current(e)']_vars

\* What a colleague is answered is the list of e.
LEMMA ColleagueList == ASSUME NEW u, NEW e, Colleague(u, e) PROVE ListOf(u) = ListOf(e)
BY DEF Colleague, ListOf

\* A step that does not begin a logout nor changes the list keeps what is offered.
LEMMA CurrentStays ==
    ASSUME TypeOK, [Next]_vars, NEW e \in Employees, Current(e), session' = e, ~leaving',
           server'[Company[e]] = server[Company[e]]
    PROVE  Current(e)'
<1> USE DEF form, loads
<1>t. CallsOK /\ OthersOK
  BY TypeParts
<1>s. /\ session = e /\ ~leaving /\ cache = ListOf(e)
      /\ Fresh(userInfo, {"sent"}, e) /\ Fresh(login, {"auth", "sent"}, e)
      /\ \A s \in Slots : Fresh(call[s], {"listing"}, e)
  BY DEF Current
<1>l. ListOf(e)' = ListOf(e)
  BY DEF ListOf
<1>u. e # NoUser /\ Colleague(e, e)
  BY UsersAssumption DEF Colleague
<1> DEFINE Fine(task, asking) ==
              /\ task.pc \in asking => Colleague(task.of, e)
              /\ task.pc \in {"answered", "listed"} => task.got = ListOf(e)
<1> SUFFICES /\ cache' = ListOf(e)
             /\ Fine(userInfo', {"sent"}) /\ Fine(login', {"auth", "sent"})
             /\ \A s \in Slots : Fine(call'[s], {"listing"})
  BY <1>l DEF Current, Fresh, Colleague
<1>f. /\ Fine(userInfo, {"sent"}) /\ Fine(login, {"auth", "sent"})
      /\ \A s \in Slots : Fine(call[s], {"listing"})
  BY <1>s DEF Fresh
<1>1. ASSUME NEW s \in Slots, CallStep(s) \/ RefreshFails(s)
      PROVE  /\ cache' = ListOf(e) /\ UNCHANGED <<userInfo, login>>
             /\ \A t \in Slots : Fine(call'[t], {"listing"})
  <2>1. UNCHANGED <<userInfo, login>> /\ \A t \in Slots : t # s => call'[t] = call[t]
    BY <1>1, <1>t DEF CallStep, CallServed, CallFails, Refresh, RefreshServed, RefreshStored,
                      RefreshFails, Release, Tell, Goto, CallsOK
  <2>2. cache' = ListOf(e)
    <3>1. RefreshStored(s) => cache' = ListOf(e)
      BY <1>f DEF RefreshStored
    <3>2. ~RefreshStored(s) => cache' = cache
      BY <1>1 DEF CallStep, CallServed, CallFails, Refresh, RefreshServed, RefreshFails,
                  Release, Tell
    <3> QED
      BY <1>s, <3>1, <3>2
  <2>3. Fine(call'[s], {"listing"})
    <3>1. CASE Refresh(s)
      <4>1. call'[s].pc = "listing" /\ call'[s].of = e
        BY <3>1, <1>s, <1>t, <1>u DEF Refresh, CallsOK, CallType
      <4> QED
        BY <4>1, <1>u
    <3>2. CASE RefreshServed(s)
      <4>1. Colleague(call[s].of, e)
        BY <3>2, <1>f DEF RefreshServed
      <4>2. call'[s].pc = "listed" /\ call'[s].got = ListOf(e)
        BY <3>2, <4>1, <1>t, ColleagueList DEF RefreshServed, CallsOK, CallType
      <4> QED
        BY <4>2
    <3>3. CASE ~Refresh(s) /\ ~RefreshServed(s)
      <4>1. call'[s].pc \in {"idle", "refresh", "release", "tell"}
        BY <1>1, <1>t, <3>3 DEF CallStep, CallServed, CallFails, RefreshStored, RefreshFails,
                                Release, Tell, Goto, CallsOK, CallType, NoCall
      <4> QED
        BY <4>1
    <3> QED
      BY <3>1, <3>2, <3>3
  <2> QED
    BY <2>1, <2>2, <2>3, <1>f
<1>2. ASSUME NEW s \in Slots, NEW ask \in Asked, CallClicked(s, ask)
      PROVE  /\ UNCHANGED <<cache, userInfo, login>>
             /\ \A t \in Slots : Fine(call'[t], {"listing"})
  <2>1. call'[s].pc = "sent" /\ \A t \in Slots : t # s => call'[t] = call[t]
    BY <1>2, <1>t DEF CallClicked, CallsOK, NoCall
  <2> QED
    BY <1>2, <1>f, <2>1 DEF CallClicked
<1>3. CASE \/ CallRefused
           \/ \E c \in Companies, ask \in Asked : OtherAdmin(c, ask)
           \/ UNCHANGED vars
  BY <1>3, <1>s, <1>f DEF CallRefused, OtherAdmin, vars
<1>4. ~(\E u \in Employees : LoginBegin(u)) /\ ~LogoutClear /\ ~LogoutSession
  BY <1>s, <1>u DEF LoginBegin, LogoutClear, LogoutSession
<1>5. CASE LoginStep \/ LoginFails
  <2>1. UNCHANGED <<userInfo, call>> /\ login.pc # "idle"
    BY <1>5 DEF LoginStep, LoginEnter, LoginServed, LoginStored, LoginFails
  <2>2. cache' = ListOf(e)
    BY <1>5, <1>s, <1>f DEF LoginStep, LoginEnter, LoginServed, LoginStored, LoginFails
  <2>3. CASE LoginEnter
    <3>1. login'.pc = "sent" /\ login'.of = login.of /\ Colleague(login.of, e)
      BY <2>3, <1>t, <1>f DEF LoginEnter, OthersOK, LoginType
    <3> QED
      BY <2>1, <2>2, <3>1, <1>f
  <2>4. CASE LoginServed
    <3>1. Colleague(login.of, e)
      BY <2>4, <1>f DEF LoginServed
    <3>2. login'.pc = "answered" /\ login'.got = ListOf(e)
      BY <2>4, <3>1, <1>t, ColleagueList DEF LoginServed, OthersOK, LoginType
    <3> QED
      BY <2>1, <2>2, <3>2, <1>f
  <2>5. CASE LoginStored \/ LoginFails
    <3>1. login'.pc = "idle"
      BY <2>5 DEF LoginStored, LoginFails, NoLoad
    <3> QED
      BY <2>1, <2>2, <3>1, <1>f
  <2> QED
    BY <1>5, <2>3, <2>4, <2>5 DEF LoginStep
<1>6. CASE InfoStep \/ InfoFails
  <2>1. UNCHANGED <<login, call>>
    BY <1>6 DEF InfoStep, InfoStart, InfoServed, InfoStored, InfoFails
  <2>2. cache' = ListOf(e)
    BY <1>6, <1>s, <1>f DEF InfoStep, InfoStart, InfoServed, InfoStored, InfoFails
  <2>3. CASE InfoStart
    <3>1. userInfo'.pc = "sent" /\ userInfo'.of = e
      BY <2>3, <1>s DEF InfoStart, NoLoad
    <3> QED
      BY <2>1, <2>2, <3>1, <1>f, <1>u
  <2>4. CASE InfoServed
    <3>1. Colleague(userInfo.of, e)
      BY <2>4, <1>f DEF InfoServed
    <3>2. userInfo'.pc = "answered" /\ userInfo'.got = ListOf(e)
      BY <2>4, <3>1, <1>t, ColleagueList DEF InfoServed, OthersOK, InfoType
    <3> QED
      BY <2>1, <2>2, <3>2, <1>f
  <2>5. CASE InfoStored \/ InfoFails
    <3>1. userInfo'.pc = "idle"
      BY <2>5 DEF InfoStored, InfoFails, NoLoad
    <3> QED
      BY <2>1, <2>2, <3>1, <1>f
  <2> QED
    BY <1>6, <2>3, <2>4, <2>5 DEF InfoStep
<1> QED
  BY <1>1, <1>2, <1>3, <1>4, <1>5, <1>6, <1>f, <1>s DEF Next

\* The types that are offered stay right.
THEOREM TypesStayRight == Spec => CurrentStaysCurrent
<1>1. TypeOK /\ [Next]_vars =>
          [\A e \in Employees :
              /\ Current(e) /\ session' = e /\ ~leaving' /\ server'[Company[e]] = server[Company[e]]
              => Current(e)']_vars
  BY CurrentStays
<1> QED
  BY <1>1, TypeCorrect, PTL DEF Spec, CurrentStaysCurrent

=============================================================================
