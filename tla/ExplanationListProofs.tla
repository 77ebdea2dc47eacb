------------------------- MODULE ExplanationListProofs -------------------------
(***************************************************************************)
(* Proofs about ExplanationList, for any number of employees, segments and *)
(* fetches: its types, that "loading" is never left up, and that a list    *)
(* that is right stays right.                                              *)
(***************************************************************************)
EXTENDS ExplanationList, TLAPS

-----------------------------------------------------------------------------
(***************************************************************************)
(* The cache                                                               *)
(***************************************************************************)

CacheType == [items : Lists, loading : BOOLEAN, error : BOOLEAN, employee : Users]
FetchType == Request({"sent", "answered"})

\* The two variables of a fetch, and what a fetch under way knows.
FetchesOK ==
    /\ cache \in CacheType
    /\ fetch \in [Fetches -> FetchType]
    /\ \A f \in Fetches : fetch[f].pc # "idle" => fetch[f].of \in Employees
    /\ \A f \in Fetches : fetch[f].pc = "answered" => fetch[f].list.of = fetch[f].of

\* The type invariant has the part about the fetches.
LEMMA TypeHasFetches == TypeOK => FetchesOK
BY DEF TypeOK, FetchesOK, CacheType, FetchType

\* What clear_cache leaves, and a task that is over, have their types.
LEMMA EmptyTypes == EmptyCache \in CacheType /\ Idle \in FetchType
BY DEF EmptyCache, Idle, CacheType, FetchType, Request, Lists, NoList, Users

\* The server's list is a list.
LEMMA ListOfType ==
    ASSUME TypeOK, NEW e \in Employees PROVE ListOf(e) \in List /\ ListOf(e).of = e
BY DEF TypeOK, ListOf, List

\* A request for the list, whoever asks.
LEMMA TriggerFetchType ==
    ASSUME FetchesOK, NEW e \in Employees, TriggerFetch(e) PROVE FetchesOK'
<1>1. CASE cache.loading
  BY <1>1 DEF TriggerFetch, FetchesOK
<1>2. CASE ~cache.loading
  <2>1. PICK f \in Fetches :
            /\ fetch' = [fetch EXCEPT ![f] = [Idle EXCEPT !.pc = "sent", !.of = e]]
            /\ cache' = [items |-> IF cache.employee = e THEN cache.items ELSE NoList,
                         loading |-> TRUE, error |-> FALSE, employee |-> e]
    BY <1>2 DEF TriggerFetch
  <2>2. cache' \in CacheType
    BY <2>1 DEF FetchesOK, CacheType, Lists, Users
  <2>3. [Idle EXCEPT !.pc = "sent", !.of = e] \in FetchType
    BY EmptyTypes DEF Idle, FetchType, Request, Users
  <2>4. fetch' \in [Fetches -> FetchType]
    BY <2>1, <2>3 DEF FetchesOK
  <2>5. \A g \in Fetches : fetch'[g].pc # "idle" => fetch'[g].of \in Employees
    BY <2>1 DEF FetchesOK, Idle
  <2>6. \A g \in Fetches : fetch'[g].pc = "answered" => fetch'[g].list.of = fetch'[g].of
    BY <2>1 DEF FetchesOK, Idle
  <2> QED
    BY <2>2, <2>4, <2>5, <2>6 DEF FetchesOK
<1> QED
  BY <1>1, <1>2

\* A request that only comes when nothing is loading leaves "loading" backed.
LEMMA TriggerFetchLoads ==
    ASSUME TypeOK, LoadingHasFetch, NEW e, TriggerFetch(e) PROVE LoadingHasFetch'
<1>1. CASE cache.loading
  BY <1>1 DEF TriggerFetch, LoadingHasFetch
<1>2. CASE ~cache.loading
  <2>1. PICK f \in Fetches :
            fetch' = [fetch EXCEPT ![f] = [Idle EXCEPT !.pc = "sent", !.of = e]]
    BY <1>2 DEF TriggerFetch
  <2>2. fetch'[f].pc = "sent"
    BY <2>1 DEF TypeOK, Idle
  <2> QED
    BY <2>2 DEF LoadingHasFetch
<1> QED
  BY <1>1, <1>2

-----------------------------------------------------------------------------
(***************************************************************************)
(* Types                                                                   *)
(***************************************************************************)

\* Init has the types.
LEMMA InitTypeOK == Init => TypeOK
<1> SUFFICES ASSUME Init PROVE TypeOK
  OBVIOUS
<1>1. FetchesOK
  BY EmptyTypes DEF Init, FetchesOK, Idle
<1>2. login \in Request({"auth", "sent", "answered"}) /\ login.pc = "idle"
  BY DEF Init, Idle, Request, Lists, NoList, Users
<1>3. submit \in [pc : {"idle", "refresh"} \cup Names, of : Users] /\ submit.pc = "idle"
  BY DEF Init, NotSending, Users
<1>4. /\ session \in Users /\ frame \in Users /\ report \in Users
      /\ pending \in [Employees -> SUBSET Names] /\ changes \in Nat /\ faults \in Nat
  BY BoundsAssumption DEF Init, Users
<1>5. leaving \in BOOLEAN
  BY DEF Init
<1> QED
  BY <1>1, <1>2, <1>3, <1>4, <1>5 DEF TypeOK, FetchesOK, CacheType, FetchType

\* The variables that the fetches and the views leave alone.
OthersOK ==
    /\ session \in Users
    /\ frame \in Users
    /\ login \in Request({"auth", "sent", "answered"})
    /\ login.pc # "idle" => login.of \in Employees
    /\ login.pc = "answered" => login.list.of = login.of
    /\ leaving \in BOOLEAN
    /\ submit \in [pc : {"idle", "refresh"} \cup Names, of : Users]
    /\ submit.pc # "idle" => submit.of \in Employees
    /\ report \in Users
    /\ pending \in [Employees -> SUBSET Names]
    /\ changes \in Nat
    /\ faults \in Nat

\* The type invariant is its two parts.
LEMMA TypeParts == TypeOK <=> FetchesOK /\ OthersOK
BY DEF TypeOK, FetchesOK, OthersOK, CacheType, FetchType

\* Every step keeps the types.
LEMMA NextTypeOK == TypeOK /\ [Next]_vars => TypeOK'
<1> SUFFICES ASSUME TypeOK, [Next]_vars PROVE FetchesOK' /\ OthersOK'
  BY TypeParts DEF TypeOK, FetchesOK, OthersOK, CacheType, FetchType
<1> USE DEF tasks
<1>t. FetchesOK /\ OthersOK
  BY TypeParts
<1>1. ASSUME NEW f \in Fetches, FetchServed(f) PROVE FetchesOK' /\ OthersOK'
  <2>1. ListOf(fetch[f].of) \in List /\ ListOf(fetch[f].of).of = fetch[f].of
    BY <1>1, <1>t, ListOfType DEF FetchServed, FetchesOK
  <2>2. fetch' \in [Fetches -> FetchType]
    BY <1>1, <1>t, <2>1 DEF FetchServed, FetchesOK, FetchType, Request, Lists
  <2>3. \A g \in Fetches : /\ fetch'[g].pc # "idle" => fetch'[g].of \in Employees
                           /\ fetch'[g].pc = "answered" => fetch'[g].list.of = fetch'[g].of
    BY <1>1, <1>t, <2>1 DEF FetchServed, FetchesOK, FetchType, Request
  <2> QED
    BY <1>1, <1>t, <2>2, <2>3 DEF FetchServed, FetchesOK, OthersOK
<1>2. ASSUME NEW f \in Fetches, FetchStored(f) \/ FetchFails(f) PROVE FetchesOK' /\ OthersOK'
  <2>1. fetch' = [fetch EXCEPT ![f] = Idle]
    BY <1>2 DEF FetchStored, FetchFails
  <2>2. fetch' \in [Fetches -> FetchType]
    BY <1>t, <2>1, EmptyTypes DEF FetchesOK
  <2>3. \A g \in Fetches : /\ fetch'[g].pc # "idle" => fetch'[g].of \in Employees
                           /\ fetch'[g].pc = "answered" => fetch'[g].list.of = fetch'[g].of
    BY <1>t, <2>1 DEF FetchesOK, Idle
  <2>4. cache' \in CacheType
    BY <1>2, <1>t DEF FetchStored, FetchFails, FetchesOK, CacheType, FetchType, Request
  <2> QED
    BY <1>2, <1>t, <2>2, <2>3, <2>4 DEF FetchStored, FetchFails, Fail, FetchesOK, OthersOK
<1>3. ASSUME FrameBegin PROVE FetchesOK' /\ OthersOK'
  BY <1>3, <1>t DEF FrameBegin, FetchesOK, OthersOK
<1>4. ASSUME FrameEnsures PROVE FetchesOK' /\ OthersOK'
  <2>1. frame \in Employees
    BY <1>4, <1>t DEF FrameEnsures, OthersOK, Users
  <2>2. FetchesOK'
    <3>1. CASE NeedsFetch(frame)
      BY <1>4, <1>t, <2>1, <3>1, TriggerFetchType DEF FrameEnsures, EnsureLoaded
    <3>2. CASE ~NeedsFetch(frame)
      BY <1>4, <1>t, <3>2 DEF FrameEnsures, EnsureLoaded, FetchesOK
    <3> QED
      BY <3>1, <3>2
  <2> QED
    BY <1>4, <1>t, <2>2 DEF FrameEnsures, OthersOK, Users
<1>5. ASSUME Refresh PROVE FetchesOK' /\ OthersOK'
  <2>1. session \in Employees
    BY <1>5, <1>t DEF Refresh, OthersOK, Users
  <2>2. FetchesOK'
    BY <1>5, <1>t, <2>1, TriggerFetchType DEF Refresh
  <2> QED
    BY <1>5, <1>t, <2>2 DEF Refresh, OthersOK
<1>6. ASSUME NEW u \in Employees, LoginBegin(u) PROVE FetchesOK' /\ OthersOK'
  <2>1. /\ login' \in Request({"auth", "sent", "answered"})
        /\ login'.pc = "auth" /\ login'.of \in Employees
    BY <1>6 DEF LoginBegin, Idle, Request, Lists, Users
  <2> QED
    BY <1>6, <1>t, <2>1, EmptyTypes DEF LoginBegin, FetchesOK, OthersOK
<1>7. ASSUME LoginStep \/ LoginFails PROVE FetchesOK' /\ OthersOK'
  <2>1. CASE LoginSucceeds
    BY <2>1, <1>t DEF LoginSucceeds, FetchesOK, OthersOK, Request, Users
  <2>2. CASE LoginServed
    <3>1. ListOf(login.of) \in List /\ ListOf(login.of).of = login.of
      BY <2>2, <1>t, ListOfType DEF LoginServed, OthersOK
    <3> QED
      BY <2>2, <1>t, <3>1 DEF LoginServed, FetchesOK, OthersOK, Request, Lists
  <2>3. CASE LoginStores
    <3>1. cache' \in CacheType
      BY <2>3, <1>t DEF LoginStores, Stored, OthersOK, Request, CacheType
    <3>2. login' = Idle /\ Idle \in Request({"auth", "sent", "answered"})
      BY <2>3 DEF LoginStores, Idle, Request, Lists, Users
    <3> QED
      BY <2>3, <1>t, <3>1, <3>2 DEF LoginStores, FetchesOK, OthersOK, Idle
  <2>4. CASE LoginFails
    <3>1. login' = Idle /\ Idle \in Request({"auth", "sent", "answered"})
      BY <2>4 DEF LoginFails, Idle, Request, Lists, Users
    <3> QED
      BY <2>4, <1>t, <3>1 DEF LoginFails, Fail, FetchesOK, OthersOK, Idle
  <2> QED
    BY <1>7, <2>1, <2>2, <2>3, <2>4 DEF LoginStep
<1>8. ASSUME LogoutSession \/ LogoutClear PROVE FetchesOK' /\ OthersOK'
  <2>1. CASE LogoutSession
    BY <2>1, <1>t DEF LogoutSession, FetchesOK, OthersOK, Users
  <2>2. CASE LogoutClear
    BY <2>2, <1>t, EmptyTypes DEF LogoutClear, FetchesOK, OthersOK
  <2> QED
    BY <1>8, <2>1, <2>2
<1>9. ASSUME NEW n \in Names, Submit(n) PROVE FetchesOK' /\ OthersOK'
  <2>1. session \in Employees
    BY <1>9, <1>t DEF Submit, OthersOK, Users
  <2>2. cache' \in CacheType
    <3>1. CASE cache.items.of = session
      <4>1. cache.items \in List
        BY <1>t, <2>1, <3>1, UsersAssumption DEF FetchesOK, CacheType, Lists, NoList
      <4>2. [cache.items EXCEPT !.needs = @ \ {n}] \in List
        BY <4>1 DEF List
      <4>3. cache' = [cache EXCEPT !.items = [cache.items EXCEPT !.needs = @ \ {n}]]
        BY <1>9, <1>t, <3>1 DEF Submit, Marked, FetchesOK, CacheType
      <4> QED
        BY <1>t, <4>2, <4>3 DEF FetchesOK, CacheType, Lists
    <3>2. CASE cache.items.of # session
      BY <1>9, <1>t, <3>2 DEF Submit, Marked, FetchesOK
    <3> QED
      BY <3>1, <3>2
  <2>3. submit' \in [pc : {"idle", "refresh"} \cup Names, of : Users] /\ submit'.of \in Employees
    BY <1>9, <2>1 DEF Submit, Users
  <2> QED
    BY <1>9, <1>t, <2>2, <2>3 DEF Submit, FetchesOK, OthersOK
<1>10. ASSUME NEW n \in Names, SubmitServed(n) PROVE FetchesOK' /\ OthersOK'
  <2>1. submit.of \in Employees
    BY <1>10, <1>t, NamesAssumption DEF SubmitServed, OthersOK
  <2>2. submit' \in [pc : {"idle", "refresh"} \cup Names, of : Users] /\ submit'.of \in Employees
    BY <1>10, <1>t, <2>1 DEF SubmitServed, OthersOK
  <2>3. pending' \in [Employees -> SUBSET Names]
    BY <1>10, <1>t DEF SubmitServed, OthersOK
  <2> QED
    BY <1>10, <1>t, <2>2, <2>3 DEF SubmitServed, FetchesOK, OthersOK
<1>11. ASSUME NEW n \in Names, SubmitDropped(n) PROVE FetchesOK' /\ OthersOK'
  BY <1>11, <1>t DEF SubmitDropped, NotSending, FetchesOK, OthersOK, Users
<1>12. ASSUME SubmitRefreshes PROVE FetchesOK' /\ OthersOK'
  <2>1. FetchesOK'
    BY <1>12, <1>t, TriggerFetchType DEF SubmitRefreshes, OthersOK
  <2> QED
    BY <1>12, <1>t, <2>1 DEF SubmitRefreshes, NotSending, OthersOK, Users
<1>13. ASSUME NEW n \in Names, Reported(n) PROVE FetchesOK' /\ OthersOK'
  <2>1. session \in Employees
    BY <1>13, <1>t DEF Reported, OthersOK, Users
  <2>2. pending' \in [Employees -> SUBSET Names]
    BY <1>13, <1>t, <2>1 DEF Reported, OthersOK
  <2>3. changes' \in Nat
    BY <1>13, <1>t DEF Reported, OthersOK
  <2>4. report' \in Users
    BY <1>13, <1>t DEF Reported, OthersOK
  <2> QED
    BY <1>13, <1>t, <2>2, <2>3, <2>4 DEF Reported, FetchesOK, OthersOK
<1>14. ASSUME ReportRefreshes PROVE FetchesOK' /\ OthersOK'
  <2>1. report \in Employees
    BY <1>14, <1>t DEF ReportRefreshes, OthersOK, Users
  <2>2. FetchesOK'
    BY <1>14, <1>t, <2>1, TriggerFetchType DEF ReportRefreshes
  <2> QED
    BY <1>14, <1>t, <2>2 DEF ReportRefreshes, OthersOK, Users
<1>15. ASSUME UNCHANGED vars PROVE FetchesOK' /\ OthersOK'
  <2>1. FetchesOK'
    BY <1>15, <1>t DEF vars, FetchesOK
  <2>2. OthersOK'
    BY <1>15, <1>t DEF vars, OthersOK
  <2> QED
    BY <2>1, <2>2
<1> QED
  BY <1>1, <1>2, <1>3, <1>4, <1>5, <1>6, <1>7, <1>8, <1>9, <1>10, <1>11, <1>12, <1>13,
     <1>14, <1>15 DEF Next, FetchStep, SubmitStep

\* Every variable keeps its type.
THEOREM TypeCorrect == Spec => []TypeOK
BY InitTypeOK, NextTypeOK, PTL DEF Spec

-----------------------------------------------------------------------------
(***************************************************************************)
(* The loading flag                                                        *)
(***************************************************************************)

\* Every step keeps a fetch under way as long as the flag is set.
LEMMA NextLoadingHasFetch == TypeOK /\ LoadingHasFetch /\ [Next]_vars => LoadingHasFetch'
<1> SUFFICES ASSUME TypeOK, LoadingHasFetch, [Next]_vars PROVE LoadingHasFetch'
  OBVIOUS
<1> USE DEF tasks
<1>1. ASSUME NEW f \in Fetches, FetchServed(f) PROVE LoadingHasFetch'
  <2>1. \A g \in Fetches : fetch[g].pc # "idle" => fetch'[g].pc # "idle"
    BY <1>1, TypeHasFetches DEF FetchServed, FetchesOK, FetchType, Request
  <2> QED
    BY <1>1, <2>1 DEF FetchServed, LoadingHasFetch
<1>2. ASSUME \/ \E f \in Fetches : FetchStored(f) \/ FetchFails(f)
             \/ \E u \in Employees : LoginBegin(u)
             \/ LoginStores \/ LogoutClear
      PROVE  LoadingHasFetch'
  <2>1. CASE \E f \in Fetches : FetchStored(f) \/ FetchFails(f)
    <3>1. cache \in CacheType
      BY TypeHasFetches DEF FetchesOK
    <3>2. cache'.loading = FALSE
      BY <2>1, <3>1 DEF FetchStored, FetchFails, CacheType
    <3> QED
      BY <3>2 DEF LoadingHasFetch
  <2>2. CASE (\E u \in Employees : LoginBegin(u)) \/ LoginStores \/ LogoutClear
    <3>1. cache' = EmptyCache \/ \E list : cache' = Stored(list)
      BY <2>2 DEF LoginBegin, LoginStores, LogoutClear
    <3>2. cache'.loading = FALSE
      BY <3>1 DEF EmptyCache, Stored
    <3> QED
      BY <3>2 DEF LoadingHasFetch
  <2> QED
    BY <1>2, <2>1, <2>2
<1>3. ASSUME FrameEnsures \/ Refresh \/ SubmitRefreshes \/ ReportRefreshes
      PROVE  LoadingHasFetch'
  <2>1. ASSUME NEW e, TriggerFetch(e) PROVE LoadingHasFetch'
    BY <2>1, TriggerFetchLoads
  <2>2. \/ UNCHANGED <<cache, fetch>>
        \/ \E e : TriggerFetch(e)
    BY <1>3 DEF FrameEnsures, EnsureLoaded, Refresh, SubmitRefreshes, ReportRefreshes
  <2> QED
    BY <2>1, <2>2 DEF LoadingHasFetch
<1>4. ASSUME NEW n \in Names, Submit(n) PROVE LoadingHasFetch'
  <2>1. cache'.loading = cache.loading /\ fetch' = fetch
    BY <1>4, TypeHasFetches DEF Submit, Marked, FetchesOK, CacheType
  <2> QED
    BY <2>1 DEF LoadingHasFetch
<1>5. ASSUME \/ FrameBegin \/ LoginSucceeds \/ LoginServed \/ LoginFails \/ LogoutSession
             \/ \E n \in Names : SubmitServed(n) \/ SubmitDropped(n) \/ Reported(n)
             \/ UNCHANGED vars
      PROVE  LoadingHasFetch'
  BY <1>5 DEF FrameBegin, LoginSucceeds, LoginServed, LoginFails, LogoutSession, SubmitServed,
              SubmitDropped, Reported, vars, LoadingHasFetch
<1> QED
  BY <1>1, <1>2, <1>3, <1>4, <1>5 DEF Next, FetchStep, LoginStep, SubmitStep

\* The flag is up only while a fetch is under way that takes it down.
THEOREM LoadingEnds == Spec => []LoadingHasFetch
<1>1. Init => LoadingHasFetch
  BY DEF Init, EmptyCache, LoadingHasFetch
<1> QED
  BY <1>1, NextLoadingHasFetch, TypeCorrect, PTL DEF Spec

-----------------------------------------------------------------------------
(***************************************************************************)
(* A list that is right stays right                                        *)
(***************************************************************************)

\* Whatever is under way is for e, and an answer has the list as it is now.
ListComes(e) ==
    /\ \A f \in Fetches : /\ fetch[f].pc # "idle" => fetch[f].of = e
                          /\ fetch[f].pc = "answered" => fetch[f].list = ListOf(e)
    /\ login.pc # "idle" => login.of = e
    /\ login.pc = "answered" => login.list = ListOf(e)
    /\ frame \in {NoUser, e}
    /\ report \in {NoUser, e}

\* e, who is logged in and submits nothing, sees what the server has.
Shown(e) ==
    /\ session = e
    /\ ~leaving
    /\ submit.pc = "idle"
    /\ cache.items = ListOf(e) /\ cache.employee = e
    /\ ListComes(e)

\* What e sees remains what the server has, however many fetches are answered,
\* fail or are asked for, and in whichever order, until e logs out or submits an
\* explanation, or the server's list changes.
ShownStaysShown ==
    [][\A e \in Employees :
          /\ Shown(e) /\ session' = e /\ submit' = submit /\ pending'[e] = pending[e]
          => Shown(e)']_vars

\* A request for e keeps the list of e, and whatever is under way is for e.
LEMMA TriggerFetchKeeps ==
    ASSUME TypeOK, NEW e \in Employees, TriggerFetch(e), cache.employee = e,
           \A f \in Fetches : /\ fetch[f].pc # "idle" => fetch[f].of = e
                              /\ fetch[f].pc = "answered" => fetch[f].list = ListOf(e)
    PROVE  /\ cache'.items = cache.items /\ cache'.employee = e
           /\ \A f \in Fetches : /\ fetch'[f].pc # "idle" => fetch'[f].of = e
                                 /\ fetch'[f].pc = "answered" => fetch'[f].list = ListOf(e)
<1>1. CASE cache.loading
  BY <1>1 DEF TriggerFetch
<1>2. CASE ~cache.loading
  <2>1. PICK f \in Fetches :
            /\ fetch' = [fetch EXCEPT ![f] = [Idle EXCEPT !.pc = "sent", !.of = e]]
            /\ cache' = [items |-> IF cache.employee = e THEN cache.items ELSE NoList,
                         loading |-> TRUE, error |-> FALSE, employee |-> e]
    BY <1>2 DEF TriggerFetch
  <2>2. cache'.items = cache.items /\ cache'.employee = e
    BY <2>1
  <2>3. ASSUME NEW g \in Fetches
        PROVE  \/ fetch'[g] = fetch[g]
               \/ fetch'[g].pc = "sent" /\ fetch'[g].of = e
    BY <2>1, TypeHasFetches DEF FetchesOK, Idle
  <2> QED
    BY <2>2, <2>3
<1> QED
  BY <1>1, <1>2

\* A step that is neither a logout nor about another list keeps what is shown.
LEMMA ShownStays ==
    ASSUME TypeOK, [Next]_vars, NEW e \in Employees, Shown(e), session' = e,
           submit' = submit, pending'[e] = pending[e]
    PROVE  Shown(e)'
<1> USE DEF tasks
<1>t. FetchesOK /\ OthersOK
  BY TypeParts
<1>s. /\ session = e /\ ~leaving /\ submit.pc = "idle"
      /\ cache.items = ListOf(e) /\ cache.employee = e /\ ListComes(e)
  BY DEF Shown
<1>l. ListOf(e)' = ListOf(e)
  BY DEF ListOf
<1>u. e # NoUser
  BY UsersAssumption
<1>f. \A f \in Fetches : /\ fetch[f].pc # "idle" => fetch[f].of = e
                         /\ fetch[f].pc = "answered" => fetch[f].list = ListOf(e)
  BY <1>s DEF ListComes
<1> DEFINE Fine == /\ ~leaving' /\ cache'.items = ListOf(e) /\ cache'.employee = e
                   /\ \A f \in Fetches : /\ fetch'[f].pc # "idle" => fetch'[f].of = e
                                         /\ fetch'[f].pc = "answered" => fetch'[f].list = ListOf(e)
                   /\ login'.pc # "idle" => login'.of = e
                   /\ login'.pc = "answered" => login'.list = ListOf(e)
                   /\ frame' \in {NoUser, e} /\ report' \in {NoUser, e}
<1> SUFFICES Fine
  BY <1>s, <1>l DEF Shown, ListComes
<1>1. CASE \E f \in Fetches : FetchServed(f)
  <2>1. PICK f \in Fetches : FetchServed(f)
    BY <1>1
  <2>2. fetch'[f].of = e /\ fetch'[f].list = ListOf(e)
    BY <2>1, <1>t, <1>f DEF FetchServed, FetchesOK, FetchType, Request
  <2>3. \A g \in Fetches : g # f => fetch'[g] = fetch[g]
    BY <2>1, <1>t DEF FetchServed, FetchesOK
  <2> QED
    BY <2>1, <1>s, <1>f, <2>2, <2>3 DEF FetchServed, ListComes
<1>2. CASE \E f \in Fetches : FetchStored(f) \/ FetchFails(f)
  <2>1. PICK f \in Fetches : FetchStored(f) \/ FetchFails(f)
    BY <1>2
  <2>2. \A g \in Fetches : fetch'[g].pc = "idle" \/ fetch'[g] = fetch[g]
    BY <2>1, <1>t DEF FetchStored, FetchFails, FetchesOK, Idle
  <2>3. cache'.items = ListOf(e) /\ cache'.employee = e
    BY <2>1, <1>t, <1>s, <1>f DEF FetchStored, FetchFails, FetchesOK, CacheType
  <2> QED
    BY <2>1, <1>s, <1>f, <2>2, <2>3 DEF FetchStored, FetchFails, ListComes
<1>3. CASE FrameEnsures \/ Refresh \/ ReportRefreshes
  <2>1. UNCHANGED <<cache, fetch>> \/ TriggerFetch(e)
    BY <1>3, <1>s DEF FrameEnsures, EnsureLoaded, Refresh, ReportRefreshes, ListComes
  <2>2. /\ cache'.items = cache.items /\ cache'.employee = e
        /\ \A f \in Fetches : /\ fetch'[f].pc # "idle" => fetch'[f].of = e
                              /\ fetch'[f].pc = "answered" => fetch'[f].list = ListOf(e)
    BY <2>1, <1>s, <1>f, TriggerFetchKeeps
  <2>3. UNCHANGED <<login, leaving>> /\ frame' \in {NoUser, e} /\ report' \in {NoUser, e}
    BY <1>3, <1>s DEF FrameEnsures, Refresh, ReportRefreshes, ListComes
  <2> QED
    BY <1>s, <2>2, <2>3 DEF ListComes
<1>4. CASE FrameBegin
  BY <1>4, <1>s, <1>f DEF FrameBegin, ListComes
<1>5. CASE LoginStep \/ LoginFails
  <2>1. CASE LoginSucceeds
    BY <2>1, <1>t, <1>s, <1>f DEF LoginSucceeds, ListComes, OthersOK, Request
  <2>2. CASE LoginServed
    <3>1. login'.of = e /\ login'.list = ListOf(e)
      BY <2>2, <1>t, <1>s DEF LoginServed, ListComes, OthersOK, Request
    <3> QED
      BY <2>2, <1>s, <1>f, <3>1 DEF LoginServed, ListComes
  <2>3. CASE LoginStores
    <3>1. login.list = ListOf(e)
      BY <2>3, <1>s DEF LoginStores, ListComes
    <3>2. cache'.items = login.list /\ cache'.employee = login.list.of
      BY <2>3 DEF LoginStores, Stored
    <3>3. ListOf(e).of = e
      BY DEF ListOf
    <3> QED
      BY <2>3, <1>s, <1>f, <3>1, <3>2, <3>3 DEF LoginStores, ListComes, Idle
  <2>4. CASE LoginFails
    BY <2>4, <1>s, <1>f DEF LoginFails, ListComes, Idle
  <2> QED
    BY <1>5, <2>1, <2>2, <2>3, <2>4 DEF LoginStep
<1>6. ~(\E u \in Employees : LoginBegin(u)) /\ ~LogoutSession /\ ~LogoutClear
  BY <1>s, <1>u DEF LoginBegin, LogoutSession, LogoutClear
<1>7. ~(\E n \in Names : Submit(n) \/ SubmitServed(n) \/ SubmitDropped(n)) /\ ~SubmitRefreshes
  BY <1>s, NamesAssumption DEF Submit, SubmitServed, SubmitDropped, SubmitRefreshes
<1>8. ~(\E n \in Names : Reported(n))
  BY <1>s, <1>t DEF Reported, OthersOK
<1>9. CASE UNCHANGED vars
  BY <1>9, <1>s, <1>f DEF vars, ListComes
<1> QED
  BY <1>1, <1>2, <1>3, <1>4, <1>5, <1>6, <1>7, <1>8, <1>9 DEF Next, FetchStep, SubmitStep

\* The list that is shown stays right.
THEOREM ListStaysRight == Spec => ShownStaysShown
<1>1. TypeOK /\ [Next]_vars =>
          [\A e \in Employees :
              /\ Shown(e) /\ session' = e /\ submit' = submit /\ pending'[e] = pending[e]
              => Shown(e)']_vars
  BY ShownStays
<1> QED
  BY <1>1, TypeCorrect, PTL DEF Spec, ShownStaysShown

=============================================================================
