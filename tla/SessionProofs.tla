----------------------------- MODULE SessionProofs -----------------------------
(***************************************************************************)
(* Proofs about Session, for any number of users, faults and caches: its   *)
(* types, that a forced logout never finds the user-info loop in a logout  *)
(* already, and that who has only data of their own keeps only their own.  *)
(*                                                                         *)
(* The second part is about what a session lets the idle loop do: proofs   *)
(* about TrackingGate, for any employees, versions and answers of the      *)
(* server.  Its session is this one, its bound on trouble the one on       *)
(* faults.  That version_lt orders the versions, the types, and that a     *)
(* gate which has been told "no" lets nothing pass until the user or the   *)
(* answer changes, as one that has been told "yes" stays open; and which   *)
(* logouts leave nobody tracked.                                           *)
(***************************************************************************)
EXTENDS Session, SequenceTheorems, NaturalsInduction, WellFoundedInduction, TLAPS

\* The rest of TrackingGate's parameters.
CONSTANTS Currents, Minima, Facts

VARIABLES canTrack, attendance, plan, result, entering, userInfo, policySync, exiting,
          tracking, server, offer, trouble

G == INSTANCE TrackingGate
         WITH MaxTrouble <- MaxFaults, login <- entering, leaving <- exiting

-----------------------------------------------------------------------------
(***************************************************************************)
(* What a task loads                                                       *)
(***************************************************************************)

\* One load, if the instance keeps it.
LEMMA LoadType ==
    ASSUME NEW k
    PROVE  Load(k) \in Seq(Kinds) /\ Load(k) \in Seq({k})
<1>1. CASE k \in Kinds
  <2>1. Load(k) = <<k>>
    BY <1>1 DEF Load
  <2>2. \A S : k \in S => <<k>> \in Seq(S)
    OBVIOUS
  <2> QED
    BY <1>1, <2>1, <2>2
<1>2. CASE k \notin Kinds
  <2>1. Load(k) = <<>>
    BY <1>2 DEF Load
  <2> QED
    BY <2>1, EmptySeq
<1> QED
  BY <1>1, <1>2

\* Loads of caches, one after the other.
LEMMA LoadsType ==
    /\ LoginLoads \in Seq(Kinds)
    /\ InfoLoads \in Seq(Kinds)
    /\ Load("policy") \in Seq(Kinds)
    /\ Load("policy") \in Seq({"policy"})
<1>1. LoginLoads \in Seq(Kinds)
  BY LoadType, ConcatProperties DEF LoginLoads
<1>2. InfoLoads \in Seq(Kinds)
  BY LoadType, ConcatProperties DEF InfoLoads
<1> QED
  BY <1>1, <1>2, LoadType

\* What is left after a load that failed are loads that were left before.
LEMMA SkippedType ==
    ASSUME NEW S, NEW todo \in Seq(S), todo # <<>>
    PROVE  Skipped(todo) \in Seq(S) /\ Tail(todo) \in Seq(S) /\ Head(todo) \in S
<1>1. Tail(todo) \in Seq(S) /\ Head(todo) \in S
  BY HeadTailProperties
<1>2. Tail(todo) # <<>> => Tail(Tail(todo)) \in Seq(S)
  BY <1>1, HeadTailProperties
<1> QED
  BY <1>1, <1>2 DEF Skipped

-----------------------------------------------------------------------------
(***************************************************************************)
(* Types                                                                   *)
(***************************************************************************)

DataOK ==
    /\ up \in BOOLEAN
    /\ standing \in [Employees -> Standings]
    /\ row \in Row /\ (row.auto => row.user # NoUser)
    /\ creds \in Users
    /\ session \in Users
    /\ cache \in [Kinds -> Users]
    /\ faults \in Nat

LoginsOK ==
    /\ login \in [Logins -> Login]
    /\ \A t \in Logins : login[t].pc # "idle" => login[t].user \in Employees

\* The policy loop loads nothing but the policy.
PollsOK ==
    /\ poll \in [Loops -> Poll]
    /\ \A l \in Loops : poll[l].pc = "running" => poll[l].user \in Employees
    /\ \A l \in Loops : poll[l].pc = "leaving" => l = "userInfo"
    /\ \A l \in Loops : l # "userInfo" => poll[l].todo \in Seq({"policy"})

LeavingOK ==
    /\ leaving \in [Callers -> {"no", "creds", "row", "session"}]
    /\ leaving["userInfo"] # "no" => "userInfo" \in Loops /\ poll["userInfo"].pc = "leaving"

\* A process that does not run has nothing in memory.
DownIsEmpty ==
    ~up => /\ session = NoUser
           /\ cache = [k \in Kinds |-> NoUser]
           /\ login = [t \in Logins |-> NoLogin]
           /\ poll = [l \in Loops |-> NoPoll]
           /\ leaving = [c \in Callers |-> "no"]

IInv == DataOK /\ LoginsOK /\ PollsOK /\ LeavingOK /\ DownIsEmpty

\* The type invariant is part of the inductive one.
LEMMA Typed == IInv => TypeOK
BY DEF IInv, DataOK, LoginsOK, PollsOK, LeavingOK, TypeOK

\* The two loops.
LEMMA LoopNames == Loops \subseteq {"userInfo", "policySync"}
BY DEF Loops

\* An idle task has the type of one.
LEMMA IdleTypes ==
    /\ NoLogin \in Login /\ NoLogin.pc = "idle"
    /\ NoPoll \in Poll /\ NoPoll.pc = "asleep" /\ NoPoll.todo \in Seq({"policy"})
BY DEF NoLogin, NoPoll, Login, Poll, Users

\* Emptied or filled, the caches are about users.
LEMMA CacheTypes ==
    ASSUME cache \in [Kinds -> Users], NEW kinds, NEW u \in Users
    PROVE  ClearAll \in [Kinds -> Users] /\ Filled(kinds, u) \in [Kinds -> Users]
BY DEF ClearAll, Filled, Users

\* A fault leaves a number of faults.
LEMMA FailType == ASSUME faults \in Nat, Fail PROVE faults' \in Nat
BY DEF Fail

\* Whether it is stored or not, the entry is somebody's.
LEMMA CredsType ==
    ASSUME creds \in Users, faults \in Nat, NEW u \in Users, StoreCreds(u)
    PROVE  creds' \in Users /\ faults' \in Nat
BY DEF StoreCreds, Fail

\* A login that moves on or ends has the type of one.
LEMMA LoginMoves ==
    ASSUME LoginsOK, NEW t \in Logins, login[t].pc # "idle",
           \/ End(t)
           \/ \E pc \in {"fetch", "forgetCreds", "forgetRow", "row", "creds", "session"} :
                 Goto(t, pc)
           \/ \E todo \in Seq(Kinds) : login' = [login EXCEPT ![t].todo = todo]
           \/ \E todo \in Seq(Kinds) :
                 login' = [login EXCEPT ![t].pc = "load", ![t].todo = todo]
    PROVE  LoginsOK'
<1>1. CASE End(t)
  BY <1>1, IdleTypes DEF LoginsOK, End
<1>2. ASSUME NEW pc \in {"fetch", "forgetCreds", "forgetRow", "row", "creds", "session"},
             Goto(t, pc)
      PROVE  LoginsOK'
  BY <1>2 DEF LoginsOK, Goto, Login
<1>3. ASSUME NEW todo \in Seq(Kinds), login' = [login EXCEPT ![t].todo = todo]
      PROVE  LoginsOK'
  <2>1. [login[t] EXCEPT !.todo = todo] \in Login
    BY DEF LoginsOK, Login
  <2>2. login' \in [Logins -> Login] /\ login'[t].user = login[t].user
    BY <1>3, <2>1 DEF LoginsOK, Login
  <2>3. \A s \in Logins \ {t} : login'[s] = login[s]
    BY <1>3 DEF LoginsOK
  <2> QED
    BY <2>2, <2>3 DEF LoginsOK
<1>4. ASSUME NEW todo \in Seq(Kinds),
             login' = [login EXCEPT ![t].pc = "load", ![t].todo = todo]
      PROVE  LoginsOK'
  <2>1. [login[t] EXCEPT !.pc = "load", !.todo = todo] \in Login
    BY DEF LoginsOK, Login
  <2>2. login' \in [Logins -> Login] /\ login'[t].user = login[t].user
    BY <1>4, <2>1 DEF LoginsOK, Login
  <2>3. \A s \in Logins \ {t} : login'[s] = login[s]
    BY <1>4 DEF LoginsOK
  <2> QED
    BY <2>2, <2>3 DEF LoginsOK
<1> QED
  BY <1>1, <1>2, <1>3, <1>4

-----------------------------------------------------------------------------
(***************************************************************************)
(* The inductive invariant                                                 *)
(***************************************************************************)

\* Init has it.
LEMMA InitIInv == Init => IInv
<1> SUFFICES ASSUME Init PROVE IInv
  OBVIOUS
<1>1. DataOK
  BY FaultsAssumption DEF Init, DataOK, Standings, Row, NoRow, Users
<1>2. LoginsOK
  BY IdleTypes DEF Init, LoginsOK
<1>3. PollsOK
  BY IdleTypes DEF Init, PollsOK
<1>4. LeavingOK
  BY DEF Init, LeavingOK, Callers
<1>5. DownIsEmpty
  BY DEF Init, DownIsEmpty
<1> QED
  BY <1>1, <1>2, <1>3, <1>4, <1>5 DEF IInv

\* A step of a login.
LEMMA LoginStepIInv ==
    ASSUME IInv, NEW t \in Logins, LoginStep(t)
    PROVE  IInv'
<1> USE DEF IInv, memory, disk
<1>u. up /\ UNCHANGED <<up, poll, leaving, standing>>
  <2>1. login[t].pc # "idle"
    BY DEF LoginStep, Authenticated, NotAuthenticated, Fetched, FetchFails, PersistRow,
           PersistRowFails, PersistCreds, SetSession, LoginLoad, LoginDone, ForgetCreds, ForgetRow
  <2>2. up
    BY <2>1, IdleTypes DEF DownIsEmpty, DataOK
  <2> QED
    BY <2>2 DEF LoginStep, Authenticated, NotAuthenticated, Fetched, FetchFails, PersistRow,
           PersistRowFails, PersistCreds, SetSession, LoginLoad, LoginDone, ForgetCreds, ForgetRow
<1>d. DownIsEmpty' /\ PollsOK' /\ LeavingOK'
  BY <1>u DEF DownIsEmpty, PollsOK, LeavingOK
<1>n. NoUser \in Users /\ (login[t].pc # "idle" => login[t].user \in Users)
  BY DEF Users, LoginsOK
<1>1. CASE Authenticated(t)
  <2>1. LoginsOK'
    BY <1>1, LoginMoves DEF Authenticated
  <2>2. DataOK'
    BY <1>1, <1>n, CacheTypes DEF Authenticated, DataOK
  <2> QED
    BY <1>d, <2>1, <2>2
<1>2. CASE NotAuthenticated(t)
  <2>1. LoginsOK'
    BY <1>2, LoginMoves DEF NotAuthenticated
  <2>2. DataOK'
    BY <1>2, FailType DEF NotAuthenticated, DataOK
  <2> QED
    BY <1>d, <2>1, <2>2
<1>3. CASE Fetched(t)
  <2>1. LoginsOK'
    BY <1>3, LoginMoves DEF Fetched
  <2>2. DataOK'
    BY <1>3 DEF Fetched, DataOK
  <2> QED
    BY <1>d, <2>1, <2>2
<1>4. CASE FetchFails(t)
  <2>1. LoginsOK'
    BY <1>4, LoginMoves DEF FetchFails
  <2>2. DataOK'
    BY <1>4, FailType DEF FetchFails, DataOK
  <2> QED
    BY <1>d, <2>1, <2>2
<1>5. CASE PersistRow(t)
  <2>1. LoginsOK'
    BY <1>5, LoginMoves DEF PersistRow
  <2>2. login[t].user \in Employees /\ login[t].auto \in BOOLEAN
    BY <1>5 DEF PersistRow, LoginsOK, Login
  <2>3. row' \in Row /\ row'.user # NoUser
    BY <1>5, <2>2, UsersAssumption DEF PersistRow, Row, Users
  <2>4. DataOK'
    BY <1>5, <2>3 DEF PersistRow, DataOK
  <2> QED
    BY <1>d, <2>1, <2>4
<1>6. CASE PersistRowFails(t)
  <2>1. LoginsOK'
    BY <1>6, LoginMoves DEF PersistRowFails
  <2>2. row' \in Row /\ ~row'.auto
    BY <1>6, <1>n DEF PersistRowFails, Row, NoRow
  <2>3. DataOK'
    BY <1>6, <2>2, FailType DEF PersistRowFails, DataOK
  <2> QED
    BY <1>d, <2>1, <2>3
<1>7. CASE PersistCreds(t)
  <2>1. LoginsOK'
    BY <1>7, LoginMoves DEF PersistCreds
  <2>2. creds' \in Users /\ faults' \in Nat
    BY <1>7, <1>n, CredsType DEF PersistCreds, DataOK
  <2>3. cache' \in [Kinds -> Users]
    BY <1>7, <1>n DEF PersistCreds, DataOK
  <2>4. DataOK'
    BY <1>7, <2>2, <2>3 DEF PersistCreds, DataOK
  <2> QED
    BY <1>d, <2>1, <2>4
<1>8. CASE SetSession(t)
  <2>1. LoginsOK'
    BY <1>8, LoginMoves, LoadsType DEF SetSession
  <2>2. DataOK'
    BY <1>8, <1>n, CacheTypes DEF SetSession, DataOK
  <2> QED
    BY <1>d, <2>1, <2>2
<1>9. CASE LoginLoad(t)
  <2>1. Tail(login[t].todo) \in Seq(Kinds)
    BY <1>9, SkippedType DEF LoginLoad, LoginsOK, Login
  <2>2. login' = [login EXCEPT ![t].todo = Tail(login[t].todo)]
    BY <1>9 DEF LoginLoad, LoginsOK
  <2>3. LoginsOK'
    BY <1>9, <2>1, <2>2, LoginMoves DEF LoginLoad
  <2>4. cache' \in [Kinds -> Users] /\ faults' \in Nat
    BY <1>9, <1>n, CacheTypes, FailType DEF LoginLoad, DataOK
  <2>5. DataOK'
    BY <1>9, <2>4 DEF LoginLoad, DataOK
  <2> QED
    BY <1>d, <2>3, <2>5
<1>10. CASE LoginDone(t)
  <2>1. LoginsOK'
    BY <1>10, LoginMoves DEF LoginDone
  <2>2. DataOK'
    BY <1>10 DEF LoginDone, DataOK
  <2> QED
    BY <1>d, <2>1, <2>2
<1>11. CASE t = "auto" /\ ForgetCreds
  <2>1. LoginsOK'
    BY <1>11, LoginMoves DEF ForgetCreds
  <2>2. creds' \in Users /\ faults' \in Nat
    BY <1>11, <1>n, CredsType DEF ForgetCreds, DataOK
  <2>3. DataOK'
    BY <1>11, <2>2 DEF ForgetCreds, DataOK
  <2> QED
    BY <1>d, <2>1, <2>3
<1>12. CASE t = "auto" /\ ForgetRow
  <2>1. LoginsOK'
    BY <1>12, LoginMoves DEF ForgetRow
  <2>2. NoRow \in Row /\ ~NoRow.auto
    BY <1>n DEF Row, NoRow
  <2>3. DataOK'
    BY <1>12, <2>2, FailType DEF ForgetRow, DataOK
  <2> QED
    BY <1>d, <2>1, <2>3
<1> QED
  BY <1>1, <1>2, <1>3, <1>4, <1>5, <1>6, <1>7, <1>8, <1>9, <1>10, <1>11, <1>12 DEF LoginStep

\* A step of a logout.
LEMMA LogoutStepIInv ==
    ASSUME IInv, NEW c \in Callers, LogoutStep(c)
    PROVE  IInv'
<1> USE DEF IInv, memory, disk
<1>u. leaving[c] # "no" /\ up /\ UNCHANGED <<up, poll, login, standing>>
  <2>1. leaving[c] # "no"
    BY DEF LogoutStep, LogoutCreds, LogoutRow, LogoutRowFails, LogoutSession
  <2>2. up
    BY <2>1 DEF DownIsEmpty, DataOK
  <2> QED
    BY <2>1, <2>2 DEF LogoutStep, LogoutCreds, LogoutRow, LogoutRowFails, LogoutSession
<1>d. DownIsEmpty' /\ LoginsOK' /\ PollsOK'
  BY <1>u DEF DownIsEmpty, LoginsOK, PollsOK
<1>l. ASSUME NEW step \in {"no", "row", "session"}, Leave(c, step)
      PROVE  LeavingOK'
  BY <1>u, <1>l DEF LeavingOK, Leave, Callers
<1>n. NoUser \in Users /\ NoRow \in Row /\ ~NoRow.auto
  BY DEF Users, Row, NoRow
<1>1. CASE LogoutCreds(c)
  <2>1. creds' \in Users /\ faults' \in Nat
    BY <1>1, <1>n, CredsType DEF LogoutCreds, DataOK
  <2>2. LeavingOK'
    BY <1>1, <1>l DEF LogoutCreds
  <2>3. DataOK'
    BY <1>1, <2>1 DEF LogoutCreds, DataOK
  <2> QED
    BY <1>d, <2>2, <2>3
<1>2. CASE LogoutRow(c)
  <2>1. LeavingOK'
    BY <1>2, <1>l DEF LogoutRow
  <2>2. DataOK'
    BY <1>2, <1>n, CacheTypes DEF LogoutRow, DataOK
  <2> QED
    BY <1>d, <2>1, <2>2
<1>3. CASE LogoutRowFails(c)
  <2>1. LeavingOK'
    BY <1>3, <1>l DEF LogoutRowFails
  <2>2. DataOK'
    BY <1>3, FailType DEF LogoutRowFails, DataOK
  <2> QED
    BY <1>d, <2>1, <2>2
<1>4. CASE LogoutSession(c)
  <2>1. LeavingOK'
    BY <1>4, <1>l DEF LogoutSession
  <2>2. DataOK'
    BY <1>4, <1>n DEF LogoutSession, DataOK
  <2> QED
    BY <1>d, <2>1, <2>2
<1> QED
  BY <1>1, <1>2, <1>3, <1>4 DEF LogoutStep

\* A loop that goes on, in the user-info cycle or in the policy cycle.
LEMMA PollMoves ==
    ASSUME IInv, NEW l \in Loops, poll[l].pc = "running",
           NEW todo \in Seq(Kinds), l # "userInfo" => todo \in Seq({"policy"}),
           poll' = [poll EXCEPT ![l].todo = todo], UNCHANGED leaving
    PROVE  PollsOK' /\ LeavingOK'
<1> USE DEF IInv
<1>1. [poll[l] EXCEPT !.todo = todo] \in Poll
  BY DEF PollsOK, Poll
<1>2. /\ poll' \in [Loops -> Poll]
      /\ poll'[l].pc = poll[l].pc /\ poll'[l].user = poll[l].user /\ poll'[l].todo = todo
  BY <1>1 DEF PollsOK, Poll
<1>3. \A m \in Loops \ {l} : poll'[m] = poll[m]
  BY DEF PollsOK
<1>4. PollsOK'
  BY <1>2, <1>3 DEF PollsOK
<1>5. LeavingOK'
  BY <1>2, <1>3 DEF LeavingOK
<1> QED
  BY <1>4, <1>5

\* What a cycle has still to load.
LEMMA TodoTypes ==
    ASSUME IInv, NEW l \in Loops, Running(l)
    PROVE  /\ Loading(l) \in Kinds
           /\ Tail(poll[l].todo) \in Seq(Kinds) /\ Skipped(poll[l].todo) \in Seq(Kinds)
           /\ l # "userInfo" => /\ Loading(l) = "policy"
                                /\ Tail(poll[l].todo) \in Seq({"policy"})
                                /\ Skipped(poll[l].todo) \in Seq({"policy"})
<1>1. poll[l].todo \in Seq(Kinds) /\ poll[l].todo # <<>>
  BY DEF IInv, PollsOK, Poll, Running
<1>2. l # "userInfo" => poll[l].todo \in Seq({"policy"})
  BY DEF IInv, PollsOK
<1> QED
  BY <1>1, <1>2, SkippedType DEF Loading

\* A forced logout is the user-info loop's, and finds it in no other logout.
LEMMA ForcedByUserInfo ==
    ASSUME IInv, NEW l \in Loops, Running(l), ForcesLogout(l)
    PROVE  l = "userInfo" /\ leaving["userInfo"] = "no"
<1>1. l = "userInfo"
  BY TodoTypes DEF ForcesLogout
<1> QED
  BY <1>1 DEF IInv, LeavingOK, Running

\* A step of a loop.
LEMMA PollStepIInv ==
    ASSUME IInv, NEW l \in Loops, PollStep(l)
    PROVE  IInv'
<1> USE DEF IInv, memory, disk
<1>u. up /\ UNCHANGED <<up, standing, row, creds, session, login>>
  <2>1. up \/ poll[l].pc # "asleep"
    BY DEF PollStep, PollStart, PollLoad, PollLoadFails, ForcedLogout, PollDone, Running
  <2>2. up
    BY <2>1, IdleTypes DEF DownIsEmpty, DataOK
  <2> QED
    BY <2>2 DEF PollStep, PollStart, PollLoad, PollLoadFails, ForcedLogout, PollDone
<1>d. DownIsEmpty' /\ LoginsOK'
  BY <1>u DEF DownIsEmpty, LoginsOK
<1>1. CASE PollStart(l)
  <2> DEFINE p == [pc |-> "running", user |-> session, todo |-> LoopLoads(l)]
  <2>1. session \in Employees
    BY <1>1 DEF PollStart, DataOK, Users
  <2>2. /\ LoopLoads(l) \in Seq(Kinds)
        /\ l # "userInfo" => LoopLoads(l) \in Seq({"policy"})
    BY LoadsType, LoopNames DEF LoopLoads
  <2>3. p \in Poll /\ p.pc = "running" /\ p.user \in Employees /\ p.todo = LoopLoads(l)
    BY <2>1, <2>2 DEF Poll, Users
  <2>4. /\ poll' \in [Loops -> Poll] /\ poll'[l] = p
        /\ \A m \in Loops \ {l} : poll'[m] = poll[m]
    BY <1>1, <2>3 DEF PollStart, PollsOK
  <2> HIDE DEF p
  <2>5. PollsOK'
    BY <2>2, <2>3, <2>4 DEF PollsOK
  <2>6. LeavingOK'
    BY <1>1, <2>4 DEF PollStart, LeavingOK
  <2>7. DataOK'
    BY <1>1 DEF PollStart, DataOK
  <2> QED
    BY <1>d, <2>5, <2>6, <2>7
<1>2. CASE PollLoad(l)
  <2>1. poll' = [poll EXCEPT ![l].todo = Tail(poll[l].todo)]
    BY <1>2 DEF PollLoad, PollsOK
  <2>2. PollsOK' /\ LeavingOK'
    BY <1>2, <2>1, TodoTypes, PollMoves DEF PollLoad, Running
  <2>3. poll[l].user \in Users
    BY DEF PollsOK, Poll
  <2>4. DataOK'
    BY <1>2, <2>3, CacheTypes DEF PollLoad, DataOK
  <2> QED
    BY <1>d, <2>2, <2>4
<1>3. CASE PollLoadFails(l)
  <2>1. poll' = [poll EXCEPT ![l].todo = Skipped(poll[l].todo)]
    BY <1>3 DEF PollLoadFails, PollsOK
  <2>2. PollsOK' /\ LeavingOK'
    BY <1>3, <2>1, TodoTypes, PollMoves DEF PollLoadFails, Running
  <2>3. DataOK'
    BY <1>3, FailType DEF PollLoadFails, DataOK
  <2> QED
    BY <1>d, <2>2, <2>3
<1>4. CASE ForcedLogout(l)
  <2> DEFINE p == [NoPoll EXCEPT !.pc = "leaving"]
  <2>1. l = "userInfo"
    BY <1>4, ForcedByUserInfo DEF ForcedLogout
  <2>2. p \in Poll /\ p.pc = "leaving"
    BY IdleTypes DEF Poll
  <2>3. /\ poll' \in [Loops -> Poll] /\ poll'[l] = p
        /\ \A m \in Loops \ {l} : poll'[m] = poll[m]
    BY <1>4, <2>2 DEF ForcedLogout, PollsOK
  <2> HIDE DEF p
  <2>4. PollsOK'
    BY <2>1, <2>2, <2>3 DEF PollsOK
  <2>5. LeavingOK'
    BY <1>4, <2>1, <2>2, <2>3 DEF ForcedLogout, LeavingOK, Leave
  <2>6. DataOK'
    BY <1>4 DEF ForcedLogout, DataOK
  <2> QED
    BY <1>d, <2>4, <2>5, <2>6
<1>5. CASE PollDone(l)
  <2>1. /\ poll' \in [Loops -> Poll] /\ poll'[l] = NoPoll
        /\ \A m \in Loops \ {l} : poll'[m] = poll[m]
    BY <1>5, IdleTypes DEF PollDone, PollsOK
  <2>2. PollsOK'
    BY <2>1, IdleTypes DEF PollsOK
  <2>3. LeavingOK'
    BY <1>5, <2>1 DEF PollDone, LeavingOK
  <2>4. DataOK'
    BY <1>5 DEF PollDone, DataOK
  <2> QED
    BY <1>d, <2>2, <2>3, <2>4
<1> QED
  BY <1>1, <1>2, <1>3, <1>4, <1>5 DEF PollStep

\* A login that begins.
LEMMA LoginBegins ==
    ASSUME LoginsOK, NEW t \in Logins, NEW u \in Employees, NEW auto \in BOOLEAN,
           login' = [login EXCEPT ![t] =
                        [NoLogin EXCEPT !.pc = "auth", !.user = u, !.auto = auto]]
    PROVE  LoginsOK'
<1> DEFINE r == [NoLogin EXCEPT !.pc = "auth", !.user = u, !.auto = auto]
<1>1. r \in Login /\ r.user = u
  BY IdleTypes DEF Login, Users
<1>2. /\ login' \in [Logins -> Login] /\ login'[t] = r
      /\ \A s \in Logins \ {t} : login'[s] = login[s]
  BY <1>1 DEF LoginsOK
<1> HIDE DEF r
<1> QED
  BY <1>1, <1>2 DEF LoginsOK

\* A step of the process, the user or the server.
LEMMA OtherStepIInv ==
    ASSUME IInv,
           \/ \E u \in Employees, auto \in BOOLEAN : ManualLogin(u, auto)
           \/ \E u \in Employees : Invalidate(u)
           \/ LogoutClicked \/ Start \/ Stop
    PROVE  IInv'
<1> USE DEF IInv, memory, disk
<1>1. ASSUME NEW u \in Employees, NEW auto \in BOOLEAN, ManualLogin(u, auto)
      PROVE  IInv'
  <2>1. LoginsOK'
    BY <1>1, LoginBegins DEF ManualLogin, Logins
  <2>2. DataOK' /\ PollsOK' /\ LeavingOK' /\ DownIsEmpty'
    BY <1>1 DEF ManualLogin, DataOK, PollsOK, LeavingOK, DownIsEmpty
  <2> QED
    BY <2>1, <2>2
<1>2. ASSUME NEW u \in Employees, Invalidate(u) PROVE IInv'
  <2>1. DataOK' /\ UNCHANGED tasks /\ UNCHANGED <<up, session, cache>>
    BY <1>2 DEF Invalidate, DataOK, Standings
  <2> QED
    BY <2>1 DEF tasks, LoginsOK, PollsOK, LeavingOK, DownIsEmpty
<1>3. CASE LogoutClicked
  <2>1. LeavingOK'
    BY <1>3 DEF LogoutClicked, Leave, LeavingOK, Callers
  <2>2. DataOK' /\ LoginsOK' /\ PollsOK' /\ DownIsEmpty'
    BY <1>3 DEF LogoutClicked, DataOK, LoginsOK, PollsOK, DownIsEmpty
  <2> QED
    BY <2>1, <2>2
<1>4. CASE Start
  <2>1. LoginsOK'
    <3>1. CASE login' = login
      BY <3>1 DEF LoginsOK
    <3>2. CASE login' # login
      <4>1. creds \in Employees
        BY <1>4, <3>2 DEF Start, DataOK, Users
      <4>2. login' = [login EXCEPT !["auto"] =
                        [NoLogin EXCEPT !.pc = "auth", !.user = creds, !.auto = TRUE]]
        BY <1>4, <3>2 DEF Start
      <4>3. PICK u \in Employees : u = creds
        BY <4>1
      <4> QED
        BY <4>2, <4>3, LoginBegins DEF Logins
    <3> QED
      BY <3>1, <3>2
  <2>2. DataOK'
    BY <1>4, FailType DEF Start, DataOK
  <2>3. PollsOK' /\ LeavingOK' /\ DownIsEmpty'
    BY <1>4 DEF Start, PollsOK, LeavingOK, DownIsEmpty
  <2> QED
    BY <2>1, <2>2, <2>3
<1>5. CASE Stop
  <2>1. DataOK'
    BY <1>5 DEF Stop, DataOK, Users
  <2>2. LoginsOK' /\ PollsOK'
    BY <1>5, IdleTypes DEF Stop, LoginsOK, PollsOK
  <2>3. LeavingOK' /\ DownIsEmpty'
    BY <1>5 DEF Stop, LeavingOK, DownIsEmpty, Callers
  <2> QED
    BY <2>1, <2>2, <2>3
<1> QED
  BY <1>1, <1>2, <1>3, <1>4, <1>5

\* Every step keeps the invariant.
LEMMA NextIInv == IInv /\ [Next]_vars => IInv'
<1> SUFFICES ASSUME IInv, [Next]_vars PROVE IInv'
  OBVIOUS
<1>1. CASE Next
  BY <1>1, LoginStepIInv, LogoutStepIInv, PollStepIInv, OtherStepIInv DEF Next
<1>2. CASE UNCHANGED vars
  BY <1>2 DEF vars, memory, disk, tasks, IInv, DataOK, LoginsOK, PollsOK, LeavingOK, DownIsEmpty
<1> QED
  BY <1>1, <1>2

\* The inductive invariant holds in every state.
THEOREM SessionInvariant == Spec => []IInv
BY InitIInv, NextIInv, PTL DEF Spec

\* Every variable keeps its type, and the user-info loop waits for the logout it
\* has called.
THEOREM TypeCorrect == Spec => []TypeOK
BY SessionInvariant, Typed, PTL

\* A user-info cycle that is told "force_logout" can always begin the logout: no
\* earlier one of the loop is still under way, and no other loop is ever told.
ForcedLogoutIsFree ==
    \A l \in Loops : Running(l) /\ ForcesLogout(l) =>
        l = "userInfo" /\ leaving["userInfo"] = "no"

THEOREM ForcedLogoutNeverWaits == Spec => []ForcedLogoutIsFree
<1>1. IInv => ForcedLogoutIsFree
  BY ForcedByUserInfo DEF ForcedLogoutIsFree
<1> QED
  BY <1>1, SessionInvariant, PTL

-----------------------------------------------------------------------------
(***************************************************************************)
(* Whose data the caches have                                              *)
(***************************************************************************)

\* Emptying the caches, or filling some with the data of u, brings in nobody else.
LEMMA OwnCaches ==
    ASSUME NEW u, NEW kinds, \A k \in Kinds : cache[k] \in {u, NoUser},
           cache' = ClearAll \/ cache' = Filled(kinds, u) \/ cache' = cache
    PROVE  \A k \in Kinds : cache'[k] \in {u, NoUser}
BY DEF ClearAll, Filled

\* A step of a login for u.
LEMMA LoginStepOwn ==
    ASSUME IInv, NEW u \in Employees, Own(u), session' = session,
           NEW t \in Logins, LoginStep(t)
    PROVE  Own(u)'
<1> USE DEF memory, disk
<1>u. login[t].user = u /\ poll' = poll
  BY DEF Own, LoginStep, Authenticated, NotAuthenticated, Fetched, FetchFails, PersistRow,
         PersistRowFails, PersistCreds, SetSession, LoginLoad, LoginDone, ForgetCreds, ForgetRow
<1>1. \A k \in Kinds : cache'[k] \in {u, NoUser}
  <2>1. CASE PersistCreds(t)
    BY <2>1, <1>u DEF PersistCreds, Own
  <2>2. CASE ~PersistCreds(t)
    <3>1. \/ cache' = ClearAll \/ cache' = cache
          \/ \E kinds \in {{"subscription", "mainInfo"}, {Head(login[t].todo)}} :
                cache' = Filled(kinds, u)
      BY <2>2, <1>u
         DEF LoginStep, Authenticated, NotAuthenticated, Fetched, FetchFails, PersistRow,
             PersistRowFails, SetSession, LoginLoad, LoginDone, ForgetCreds, ForgetRow
    <3> QED
      BY <3>1, OwnCaches DEF Own
  <2> QED
    BY <2>1, <2>2
<1>2. \A s \in Logins : login'[s].pc # "idle" => login'[s].user = u
  <2>1. \A s \in Logins \ {t} : login'[s] = login[s]
    BY DEF IInv, LoginsOK, LoginStep, Authenticated, NotAuthenticated, Fetched, FetchFails,
           PersistRow, PersistRowFails, PersistCreds, SetSession, LoginLoad, LoginDone,
           ForgetCreds, ForgetRow, Goto, End
  <2>2. login'[t].user = login[t].user \/ login'[t].pc = "idle"
    BY IdleTypes
       DEF IInv, LoginsOK, LoginStep, Authenticated, NotAuthenticated, Fetched, FetchFails,
           PersistRow, PersistRowFails, PersistCreds, SetSession, LoginLoad, LoginDone,
           ForgetCreds, ForgetRow, Goto, End, Login
  <2> QED
    BY <2>1, <2>2, <1>u DEF Own
<1> QED
  BY <1>u, <1>1, <1>2 DEF Own

\* A step of a loop: a cycle that starts is for u, and one that runs stores for u.
LEMMA PollStepOwn ==
    ASSUME IInv, NEW u \in Employees, Own(u), NEW l \in Loops, PollStep(l)
    PROVE  Own(u)'
<1> USE DEF memory, disk
<1>u. session' = session /\ login' = login
  BY DEF PollStep, PollStart, PollLoad, PollLoadFails, ForcedLogout, PollDone
<1>1. \A k \in Kinds : cache'[k] \in {u, NoUser}
  <2>1. cache' = cache \/ cache' = Filled(Refreshed(l), u)
    BY DEF Own, PollStep, PollStart, PollLoad, PollLoadFails, ForcedLogout, PollDone, Running
  <2> QED
    BY <2>1, OwnCaches DEF Own
<1>2. \A m \in Loops : poll'[m].pc = "running" => poll'[m].user = u
  <2>1. \A m \in Loops \ {l} : poll'[m] = poll[m]
    BY DEF IInv, PollsOK, PollStep, PollStart, PollLoad, PollLoadFails, ForcedLogout, PollDone
  <2>2. CASE PollStart(l)
    BY <2>1, <2>2 DEF IInv, PollsOK, PollStart, Own
  <2>3. CASE PollLoad(l) \/ PollLoadFails(l)
    <3>1. poll'[l].user = poll[l].user /\ poll[l].pc = "running"
      BY <2>3 DEF IInv, PollsOK, Poll, PollLoad, PollLoadFails, Running
    <3> QED
      BY <2>1, <3>1 DEF Own
  <2>4. CASE ForcedLogout(l) \/ PollDone(l)
    <3>1. poll'[l].pc # "running"
      BY <2>4 DEF IInv, PollsOK, ForcedLogout, PollDone, NoPoll
    <3> QED
      BY <2>1, <3>1 DEF Own
  <2> QED
    BY <2>2, <2>3, <2>4 DEF PollStep
<1> QED
  BY <1>u, <1>1, <1>2 DEF Own

\* Once everything is about the user of the session, nothing else comes in until
\* the session changes hands.
THEOREM NothingForeignComesIn == Spec => OwnStaysOwn
<1>1. ASSUME IInv, [Next]_vars, NEW u \in Employees, Own(u), session' = session
      PROVE  Own(u)'
  <2> USE DEF memory, disk
  <2>1. ASSUME NEW t \in Logins, LoginStep(t) PROVE Own(u)'
    BY <1>1, <2>1, LoginStepOwn
  <2>2. ASSUME NEW c \in Callers, LogoutStep(c) PROVE Own(u)'
    <3>1. /\ UNCHANGED <<login, poll>>
          /\ cache' = cache \/ cache' = ClearAll
      BY <2>2 DEF LogoutStep, LogoutCreds, LogoutRow, LogoutRowFails, LogoutSession
    <3> QED
      BY <1>1, <3>1, OwnCaches DEF Own
  <2>3. ASSUME NEW l \in Loops, PollStep(l) PROVE Own(u)'
    BY <1>1, <2>3, PollStepOwn
  <2>4. ASSUME NEW w \in Employees, NEW auto \in BOOLEAN, ManualLogin(w, auto) PROVE Own(u)'
    BY <1>1, <2>4 DEF ManualLogin, Own
  <2>5. ASSUME NEW w \in Employees, Invalidate(w) PROVE Own(u)'
    BY <1>1, <2>5 DEF Invalidate, Own, tasks
  <2>6. CASE LogoutClicked
    BY <1>1, <2>6 DEF LogoutClicked, Own
  <2>7. CASE Start
    BY <1>1, <2>7 DEF Start, Own, IInv, DownIsEmpty
  <2>8. CASE Stop
    BY <1>1, <2>8 DEF Stop, Own
  <2>9. CASE UNCHANGED vars
    BY <1>1, <2>9 DEF vars, tasks, Own
  <2> QED
    BY <1>1, <2>1, <2>2, <2>3, <2>4, <2>5, <2>6, <2>7, <2>8, <2>9 DEF Next
<1>2. IInv /\ [Next]_vars =>
        [\A u \in Employees : Own(u) /\ session' = session => Own(u)']_vars
  BY <1>1
<1> QED
  BY <1>2, SessionInvariant, PTL DEF Spec, OwnStaysOwn

-----------------------------------------------------------------------------
(***************************************************************************)
(* The tracking gate                                                       *)
(***************************************************************************)

\* FactsAssumption of TrackingGate: the fields of what the server answers.
FactsTyped ==
    Facts \subseteq [plan : BOOLEAN, policy : BOOLEAN, attendance : G!Attendances,
                     result : G!Results]

-----------------------------------------------------------------------------
(***************************************************************************)
(* The order of the versions                                               *)
(***************************************************************************)

\* v and w name the same version: they only differ in zeros at the end.
SameVersion(v, w) == \A i \in Nat \ {0} : G!Part(v, i) = G!Part(w, i)

\* A part of a version is a number.
LEMMA PartType == ASSUME NEW v \in G!Versions, NEW i \in Nat \ {0} PROVE G!Part(v, i) \in Nat
<1>1. i \in DOMAIN v => v[i] \in Nat
  BY DEF G!Versions
<1> QED
  BY <1>1 DEF G!Part

\* version_lt compares at the first part that differs, wherever that is.
LEMMA FirstDifference ==
    ASSUME NEW v \in G!Versions, NEW w \in G!Versions
    PROVE  G!VersionLt(v, w) <=>
               \E i \in Nat \ {0} : /\ G!Part(v, i) < G!Part(w, i)
                                    /\ \A j \in 1 .. i - 1 : G!Part(v, j) = G!Part(w, j)
<1>1. DOMAIN v \subseteq Nat \ {0} /\ DOMAIN w \subseteq Nat \ {0}
  BY DEF G!Versions
<1>2. ASSUME NEW i \in Nat \ {0}, i \notin DOMAIN v \cup DOMAIN w
      PROVE  G!Part(v, i) = 0 /\ G!Part(w, i) = 0
  BY <1>2 DEF G!Part
<1> QED
  BY <1>1, <1>2 DEF G!VersionLt

\* A version is not before itself, and of two versions not both are before the
\* other.
LEMMA VersionLtAsymmetric ==
    ASSUME NEW v \in G!Versions, NEW w \in G!Versions, G!VersionLt(v, w)
    PROVE  ~G!VersionLt(w, v)
<1> SUFFICES ASSUME G!VersionLt(w, v) PROVE FALSE
  OBVIOUS
<1>1. PICK i \in Nat \ {0} : /\ G!Part(v, i) < G!Part(w, i)
                             /\ \A j \in 1 .. i - 1 : G!Part(v, j) = G!Part(w, j)
  BY FirstDifference
<1>2. PICK k \in Nat \ {0} : /\ G!Part(w, k) < G!Part(v, k)
                             /\ \A j \in 1 .. k - 1 : G!Part(w, j) = G!Part(v, j)
  BY FirstDifference
<1>3. /\ G!Part(v, i) \in Nat /\ G!Part(w, i) \in Nat
      /\ G!Part(v, k) \in Nat /\ G!Part(w, k) \in Nat
  BY PartType
<1>4. i # k
  BY <1>1, <1>2, <1>3
<1>5. CASE i < k
  BY <1>1, <1>2, <1>3, <1>5
<1>6. CASE k < i
  BY <1>1, <1>2, <1>3, <1>6
<1> QED
  BY <1>4, <1>5, <1>6

\* What is before a version before another is before that one.
LEMMA VersionLtTransitive ==
    ASSUME NEW v \in G!Versions, NEW w \in G!Versions, NEW x \in G!Versions,
           G!VersionLt(v, w), G!VersionLt(w, x)
    PROVE  G!VersionLt(v, x)
<1>1. PICK i \in Nat \ {0} : /\ G!Part(v, i) < G!Part(w, i)
                             /\ \A j \in 1 .. i - 1 : G!Part(v, j) = G!Part(w, j)
  BY FirstDifference
<1>2. PICK k \in Nat \ {0} : /\ G!Part(w, k) < G!Part(x, k)
                             /\ \A j \in 1 .. k - 1 : G!Part(w, j) = G!Part(x, j)
  BY FirstDifference
<1>3. \A j \in Nat \ {0} : G!Part(v, j) \in Nat /\ G!Part(w, j) \in Nat /\ G!Part(x, j) \in Nat
  BY PartType
<1>4. \E m \in Nat \ {0} : /\ G!Part(v, m) < G!Part(x, m)
                           /\ \A j \in 1 .. m - 1 : G!Part(v, j) = G!Part(x, j)
  <2>1. CASE i <= k
    <3>1. G!Part(v, i) < G!Part(x, i)
      <4>1. i < k => G!Part(w, i) = G!Part(x, i)
        BY <1>2
      <4> QED
        BY <1>1, <1>2, <1>3, <2>1, <4>1
    <3>2. \A j \in 1 .. i - 1 : G!Part(v, j) = G!Part(x, j)
      BY <1>1, <1>2, <2>1
    <3> QED
      BY <3>1, <3>2
  <2>2. CASE k < i
    <3>1. G!Part(v, k) < G!Part(x, k)
      BY <1>1, <1>2, <2>2
    <3>2. \A j \in 1 .. k - 1 : G!Part(v, j) = G!Part(x, j)
      BY <1>1, <1>2, <2>2
    <3> QED
      BY <3>1, <3>2
  <2> QED
    BY <2>1, <2>2
<1> QED
  BY <1>4, FirstDifference

\* A set of numbers that is not empty has a least one.
LEMMA HasLeast ==
    ASSUME NEW S \in SUBSET Nat, S # {}
    PROVE  \E x \in S : \A y \in S : x =< y
<1> DEFINE Less == OpToRel(<, Nat)
<1>1. PICK x \in S : \A y \in S : <<y, x>> \notin Less
  <2>1. IsWellFoundedOn(Less, Nat)
    BY NatLessThanWellFounded
  <2> HIDE DEF Less
  <2> QED
    BY <2>1, WFMin
<1>2. \A y \in S : ~(y < x)
  BY <1>1 DEF OpToRel
<1> QED
  BY <1>2

\* Two versions neither of which is before the other are the same.
LEMMA VersionLtTotal ==
    ASSUME NEW v \in G!Versions, NEW w \in G!Versions, ~G!VersionLt(v, w), ~G!VersionLt(w, v)
    PROVE  SameVersion(v, w)
<1> DEFINE Differ == {i \in Nat \ {0} : G!Part(v, i) # G!Part(w, i)}
<1> SUFFICES ASSUME Differ # {} PROVE FALSE
  BY DEF SameVersion
<1>1. PICK i \in Differ : \A j \in Differ : i =< j
  BY HasLeast
<1>2. \A j \in 1 .. i - 1 : G!Part(v, j) = G!Part(w, j)
  BY <1>1
<1>3. G!Part(v, i) < G!Part(w, i) \/ G!Part(w, i) < G!Part(v, i)
  BY PartType
<1> HIDE DEF Differ
<1>4. i \in Nat \ {0}
  BY DEF Differ
<1> QED
  BY <1>2, <1>3, <1>4, FirstDifference

\* version_lt orders the versions, whatever their lengths: two of which neither is
\* before the other only differ in zeros at the end.
THEOREM VersionsAreOrdered ==
    \A v, w, x \in G!Versions :
        /\ ~(G!VersionLt(v, w) /\ G!VersionLt(w, v))
        /\ G!VersionLt(v, w) /\ G!VersionLt(w, x) => G!VersionLt(v, x)
        /\ SameVersion(v, w) <=> ~G!VersionLt(v, w) /\ ~G!VersionLt(w, v)
<1> SUFFICES ASSUME NEW v \in G!Versions, NEW w \in G!Versions, NEW x \in G!Versions
             PROVE  /\ ~(G!VersionLt(v, w) /\ G!VersionLt(w, v))
                    /\ G!VersionLt(v, w) /\ G!VersionLt(w, x) => G!VersionLt(v, x)
                    /\ SameVersion(v, w) <=> ~G!VersionLt(v, w) /\ ~G!VersionLt(w, v)
  OBVIOUS
<1>1. ~(G!VersionLt(v, w) /\ G!VersionLt(w, v))
  BY VersionLtAsymmetric
<1>2. G!VersionLt(v, w) /\ G!VersionLt(w, x) => G!VersionLt(v, x)
  BY VersionLtTransitive
<1>3. ~G!VersionLt(v, w) /\ ~G!VersionLt(w, v) => SameVersion(v, w)
  BY VersionLtTotal
<1>4. SameVersion(v, w) => ~G!VersionLt(v, w) /\ ~G!VersionLt(w, v)
  <2> SUFFICES ASSUME SameVersion(v, w) PROVE ~G!VersionLt(v, w) /\ ~G!VersionLt(w, v)
    OBVIOUS
  <2>1. \A i \in Nat \ {0} : ~(G!Part(v, i) < G!Part(w, i)) /\ ~(G!Part(w, i) < G!Part(v, i))
    BY PartType DEF SameVersion
  <2> QED
    BY <2>1, FirstDifference
<1> QED
  BY <1>1, <1>2, <1>3, <1>4

-----------------------------------------------------------------------------
(***************************************************************************)
(* Types                                                                   *)
(***************************************************************************)

EnteringType == G!Task({"plan", "enter", "attendance", "result", "policy"})
InfoType == G!Task({"plan", "status", "subscription", "info", "work"})
PolicyType == G!Task({"sent", "answered"})

\* A task at rest has every task's type.
LEMMA AsleepType ==
    /\ G!Asleep \in EnteringType /\ G!Asleep \in InfoType /\ G!Asleep \in PolicyType
    /\ G!Asleep.pc = "asleep"
BY DEF G!Asleep, EnteringType, InfoType, PolicyType, G!Task, G!Users

\* A task that begins for somebody.
LEMMA BegunType ==
    ASSUME NEW u \in Employees
    PROVE  /\ [G!Asleep EXCEPT !.pc = "plan", !.as = u] \in EnteringType
           /\ [G!Asleep EXCEPT !.pc = "plan", !.as = u] \in InfoType
           /\ [G!Asleep EXCEPT !.pc = "sent", !.as = u] \in PolicyType
BY DEF G!Asleep, EnteringType, InfoType, PolicyType, G!Task, G!Users

\* What a login is while it has not yet set the session: nobody is logged in.
EntersAlone == entering.pc \in {"plan", "enter"} => session = NoUser

\* What the server knows of an employee.
LEMMA ServerType ==
    ASSUME G!TypeOK, FactsTyped, NEW e \in Employees
    PROVE  /\ server[e].plan \in BOOLEAN /\ server[e].policy \in BOOLEAN
           /\ server[e].attendance \in G!Attendances /\ server[e].result \in G!Results
BY DEF G!TypeOK, FactsTyped

\* A request that fails leaves a number of them.
LEMMA TroubleType == ASSUME trouble \in Nat, G!Trouble PROVE trouble' \in Nat
BY DEF G!Trouble

\* Init has the types.
LEMMA InitGateTypeOK == ASSUME FactsTyped, G!Init PROVE G!TypeOK /\ EntersAlone
<1>1. /\ session \in G!Users /\ attendance \in G!Attendances /\ trouble \in Nat
      /\ server \in [Employees -> Facts] /\ session = NoUser
  BY FaultsAssumption DEF G!Init, G!Users, G!Attendances
<1>2. canTrack \in BOOLEAN /\ exiting \in BOOLEAN /\ tracking \in BOOLEAN
  BY DEF G!Init
<1>3. /\ entering \in EnteringType /\ entering.pc = "asleep"
      /\ userInfo \in InfoType /\ userInfo.pc = "asleep"
      /\ policySync \in PolicyType /\ policySync.pc = "asleep"
  BY AsleepType DEF G!Init
<1>4. plan \in {"none", "yes", "no"} /\ result \in G!Results \cup {"none"}
      /\ offer \in G!Update
  BY DEF G!Init
<1> QED
  BY <1>1, <1>2, <1>3, <1>4 DEF G!TypeOK, EntersAlone, EnteringType, InfoType, PolicyType

\* The types by what they are about: the gates, the tasks, and the rest.
GatesOK ==
    /\ canTrack \in BOOLEAN
    /\ attendance \in G!Attendances
    /\ plan \in {"none", "yes", "no"}
    /\ result \in G!Results \cup {"none"}

TasksOK ==
    /\ entering \in EnteringType /\ (entering.pc # "asleep" => entering.as \in Employees)
    /\ userInfo \in InfoType /\ (userInfo.pc # "asleep" => userInfo.as \in Employees)
    /\ policySync \in PolicyType /\ (policySync.pc # "asleep" => policySync.as \in Employees)
    /\ exiting \in BOOLEAN

RestOK ==
    /\ session \in G!Users
    /\ offer \in G!Update
    /\ tracking \in BOOLEAN
    /\ server \in [Employees -> Facts]
    /\ trouble \in Nat

\* The type invariant is its parts.
LEMMA GateTypeParts == G!TypeOK <=> GatesOK /\ TasksOK /\ RestOK
BY DEF G!TypeOK, GatesOK, TasksOK, RestOK, EnteringType, InfoType, PolicyType

\* A poll passes or does not.
LEMMA PassesType == G!Passes \in BOOLEAN
BY DEF G!Passes, G!EnablesTracking

\* A step of the login.
LEMMA EnteringTypeOK ==
    ASSUME G!TypeOK, EntersAlone, FactsTyped,
           (\E u \in Employees : G!LoginBegin(u)) \/ G!LoginStep \/ G!LoginFails
    PROVE  GatesOK' /\ TasksOK' /\ RestOK' /\ EntersAlone'
<1> USE DEF G!gates, G!tasks
<1>t. GatesOK /\ TasksOK /\ RestOK
  BY GateTypeParts
<1>1. ASSUME NEW u \in Employees, G!LoginBegin(u)
      PROVE  GatesOK' /\ TasksOK' /\ RestOK' /\ EntersAlone'
  <2>1. entering' \in EnteringType /\ entering'.as = u
    BY <1>1, BegunType DEF G!LoginBegin, G!Asleep
  <2>2. GatesOK'
    BY <1>1, <1>t DEF G!LoginBegin, G!ClearAll, GatesOK
  <2> QED
    BY <1>1, <1>t, <2>1, <2>2 DEF G!LoginBegin, TasksOK, RestOK, EntersAlone
<1>2. CASE G!LoginPlan
  <2>1. server[entering.as].plan \in BOOLEAN
    BY <1>2, <1>t, ServerType DEF G!LoginPlan, TasksOK
  <2>2. entering' \in EnteringType /\ entering'.pc = "enter" /\ entering'.as = entering.as
    BY <1>2, <1>t, <2>1 DEF G!LoginPlan, TasksOK, EnteringType, G!Task
  <2> QED
    BY <1>2, <1>t, <2>2 DEF G!LoginPlan, GatesOK, TasksOK, RestOK, EntersAlone
<1>3. CASE G!LoginEnter
  <2>1. entering' \in EnteringType /\ entering'.pc = "attendance" /\ entering'.as = entering.as
    BY <1>3, <1>t DEF G!LoginEnter, TasksOK, EnteringType, G!Task
  <2>2. entering.got \in BOOLEAN /\ entering.as \in Employees
    BY <1>3, <1>t DEF G!LoginEnter, TasksOK, EnteringType, G!Task
  <2>3. GatesOK'
    BY <1>3, <1>t, <2>2 DEF G!LoginEnter, GatesOK, G!YesNo, G!Attendances
  <2> QED
    BY <1>3, <1>t, <2>1, <2>2, <2>3 DEF G!LoginEnter, TasksOK, RestOK, EntersAlone, G!Users
<1>4. CASE G!LoginLoads
  <2>1. entering.as \in Employees
    BY <1>4, <1>t DEF G!LoginLoads, G!LoginLoad, TasksOK
  <2>2. GatesOK'
    BY <1>4, <1>t, <2>1, ServerType DEF G!LoginLoads, G!LoginLoad, GatesOK
  <2>3. /\ entering' \in EnteringType /\ entering'.pc \in {"asleep", "result", "policy"}
        /\ entering'.pc # "asleep" => entering'.as = entering.as
    BY <1>4, <1>t, AsleepType
       DEF G!LoginLoads, G!LoginLoad, G!LoginGoto, TasksOK, EnteringType, G!Task
  <2> QED
    BY <1>4, <1>t, <2>1, <2>2, <2>3 DEF G!LoginLoads, TasksOK, RestOK, EntersAlone
<1>5. CASE G!LoginFails
  <2>1. /\ entering' \in EnteringType /\ entering'.pc \in {"asleep", "result", "policy"}
        /\ entering'.pc # "asleep" => entering'.as = entering.as
    BY <1>5, <1>t, AsleepType DEF G!LoginFails, G!LoginGoto, TasksOK, EnteringType, G!Task
  <2>2. trouble' \in Nat /\ entering.as \in Employees
    BY <1>5, <1>t, TroubleType DEF G!LoginFails, RestOK, TasksOK
  <2> QED
    BY <1>5, <1>t, <2>1, <2>2 DEF G!LoginFails, GatesOK, TasksOK, RestOK, EntersAlone
<1> QED
  BY <1>1, <1>2, <1>3, <1>4, <1>5 DEF G!LoginStep

\* A step of the user-info loop that does not log out.
LEMMA InfoTypeOK ==
    ASSUME G!TypeOK, EntersAlone, FactsTyped, G!InfoStep \/ G!InfoFails
    PROVE  GatesOK' /\ TasksOK' /\ RestOK' /\ EntersAlone'
<1> USE DEF G!gates, G!tasks
<1>t. GatesOK /\ TasksOK /\ RestOK
  BY GateTypeParts
<1>e. EntersAlone'
  BY DEF EntersAlone, G!InfoStep, G!InfoFails, G!InfoStart, G!InfoPlan, G!InfoStatus,
         G!InfoSubscription, G!InfoAttendance, G!InfoWork
<1>a. ~G!InfoStart => userInfo.as \in Employees
  BY <1>t DEF G!InfoStep, G!InfoFails, G!InfoStart, G!InfoPlan, G!InfoStatus,
              G!InfoSubscription,
              G!InfoAttendance, G!InfoWork, TasksOK
<1>1. CASE G!InfoStart
  <2>1. session \in Employees
    BY <1>1, <1>t DEF G!InfoStart, RestOK, G!Users
  <2>2. userInfo' \in InfoType /\ userInfo'.as = session
    BY <1>1, <2>1, BegunType DEF G!InfoStart, G!Asleep
  <2> QED
    BY <1>1, <1>t, <1>e, <2>1, <2>2 DEF G!InfoStart, GatesOK, TasksOK, RestOK
<1>2. CASE G!InfoPlan
  <2>1. server[userInfo.as].plan \in BOOLEAN
    BY <1>2, <1>a, ServerType DEF G!InfoPlan, G!InfoStart
  <2>2. userInfo' \in InfoType /\ userInfo'.as = userInfo.as
    BY <1>2, <1>t, <2>1 DEF G!InfoPlan, TasksOK, InfoType, G!Task
  <2> QED
    BY <1>2, <1>t, <1>e, <2>2 DEF G!InfoPlan, GatesOK, TasksOK, RestOK
<1>3. CASE G!InfoStatus \/ G!InfoSubscription
  <2>1. userInfo.got \in BOOLEAN
    BY <1>t DEF TasksOK, InfoType, G!Task
  <2>2. GatesOK'
    BY <1>3, <1>t, <2>1 DEF G!InfoStatus, G!InfoSubscription, GatesOK, G!YesNo
  <2>3. userInfo' \in InfoType /\ userInfo'.as = userInfo.as /\ userInfo.pc # "asleep"
    BY <1>3, <1>t DEF G!InfoStatus, G!InfoSubscription, G!InfoGoto, TasksOK, InfoType, G!Task
  <2> QED
    BY <1>3, <1>t, <1>e, <2>2, <2>3 DEF G!InfoStatus, G!InfoSubscription, TasksOK, RestOK
<1>4. CASE G!InfoAttendance \/ G!InfoWork
  <2>1. userInfo.as \in Employees
    BY <1>4, <1>t DEF G!InfoAttendance, G!InfoWork, TasksOK
  <2>2. GatesOK'
    BY <1>4, <1>t, <2>1, ServerType DEF G!InfoAttendance, G!InfoWork, GatesOK
  <2>3. userInfo' \in InfoType /\ (userInfo'.pc # "asleep" => userInfo'.as = userInfo.as)
    BY <1>4, <1>t, AsleepType DEF G!InfoAttendance, G!InfoWork, G!InfoGoto, TasksOK, InfoType,
                                  G!Task
  <2> QED
    BY <1>4, <1>t, <1>e, <2>1, <2>2, <2>3 DEF G!InfoAttendance, G!InfoWork, TasksOK, RestOK
<1>5. CASE G!InfoFails
  <2>1. userInfo' \in InfoType /\ (userInfo'.pc # "asleep" => userInfo'.as = userInfo.as)
    BY <1>5, <1>t, AsleepType DEF G!InfoFails, G!InfoGoto, TasksOK, InfoType, G!Task
  <2>2. userInfo.as \in Employees /\ trouble' \in Nat
    BY <1>5, <1>t, TroubleType DEF G!InfoFails, TasksOK, RestOK
  <2> QED
    BY <1>5, <1>t, <1>e, <2>1, <2>2 DEF G!InfoFails, GatesOK, TasksOK, RestOK
<1> QED
  BY <1>1, <1>2, <1>3, <1>4, <1>5 DEF G!InfoStep

\* Every step keeps the types, and nobody is logged in while a login is on its way.
LEMMA NextGateTypeOK ==
    ASSUME G!TypeOK, EntersAlone, FactsTyped, [G!Next]_G!vars
    PROVE  G!TypeOK' /\ EntersAlone'
<1> SUFFICES GatesOK' /\ TasksOK' /\ RestOK' /\ EntersAlone'
  BY GateTypeParts DEF G!TypeOK, GatesOK, TasksOK, RestOK, EnteringType, InfoType, PolicyType
<1> USE DEF G!gates, G!tasks
<1>t. GatesOK /\ TasksOK /\ RestOK
  BY GateTypeParts
<1>1. CASE G!Poll
  BY <1>1, <1>t, PassesType DEF G!Poll, GatesOK, TasksOK, RestOK, EntersAlone
<1>2. CASE (\E u \in Employees : G!LoginBegin(u)) \/ G!LoginStep \/ G!LoginFails
  BY <1>2, EnteringTypeOK
<1>3. CASE G!LogoutClicked \/ G!InfoForcesLogout
  <2>1. GatesOK' /\ session' = NoUser /\ exiting' = TRUE
    BY <1>3, <1>t DEF G!LogoutClicked, G!InfoForcesLogout, G!Logout, G!ClearAll, GatesOK
  <2>2. userInfo' \in InfoType /\ (userInfo'.pc # "asleep" => userInfo'.as \in Employees)
    BY <1>3, <1>t, AsleepType DEF G!LogoutClicked, G!InfoForcesLogout, TasksOK
  <2> QED
    BY <1>3, <1>t, <2>1, <2>2
       DEF G!LogoutClicked, G!InfoForcesLogout, TasksOK, RestOK, EntersAlone, G!Users
<1>4. CASE G!LogoutStatus
  BY <1>4, <1>t DEF G!LogoutStatus, GatesOK, TasksOK, RestOK, EntersAlone
<1>5. CASE G!InfoStep \/ G!InfoFails
  BY <1>5, InfoTypeOK
<1>6. CASE G!PolicyStep \/ G!PolicyFails
  <2>1. policySync' \in PolicyType /\ (policySync'.pc # "asleep" => policySync'.as \in Employees)
    <3>1. CASE G!PolicyStart
      <4>1. session \in Employees
        BY <3>1, <1>t DEF G!PolicyStart, RestOK, G!Users
      <4> QED
        BY <3>1, <4>1, BegunType DEF G!PolicyStart, G!Asleep
    <3>2. CASE G!PolicyAnswered
      <4>1. server[policySync.as].policy \in BOOLEAN
        BY <3>2, <1>t, ServerType DEF G!PolicyAnswered, TasksOK
      <4> QED
        BY <3>2, <4>1, <1>t DEF G!PolicyAnswered, TasksOK, PolicyType, G!Task
    <3>3. CASE G!PolicyStored \/ G!PolicyFails
      BY <3>3, AsleepType DEF G!PolicyStored, G!PolicyFails
    <3> QED
      BY <1>6, <3>1, <3>2, <3>3 DEF G!PolicyStep
  <2>2. canTrack' \in BOOLEAN
    BY <1>6, <1>t DEF G!PolicyStep, G!PolicyStart, G!PolicyAnswered, G!PolicyStored,
                      G!PolicyFails, GatesOK,
                      TasksOK, PolicyType, G!Task
  <2>3. trouble' \in Nat
    BY <1>6, <1>t, TroubleType
       DEF G!PolicyStep, G!PolicyStart, G!PolicyAnswered, G!PolicyStored, G!PolicyFails,
           RestOK
  <2>4. UNCHANGED <<session, attendance, plan, result, offer, entering, userInfo, exiting,
                    tracking, server>>
    BY <1>6 DEF G!PolicyStep, G!PolicyStart, G!PolicyAnswered, G!PolicyStored, G!PolicyFails
  <2> QED
    BY <1>t, <2>1, <2>2, <2>3, <2>4 DEF GatesOK, TasksOK, RestOK, EntersAlone
<1>7. CASE G!UpdateChecked
  <2>1. canTrack' \in BOOLEAN
    BY <1>7, <1>t DEF G!UpdateChecked, GatesOK, G!Outdated
  <2> QED
    BY <1>7, <1>t, <2>1 DEF G!UpdateChecked, GatesOK, TasksOK, RestOK, EntersAlone
<1>8. ASSUME NEW e \in Employees, G!Change(e)
      PROVE  GatesOK' /\ TasksOK' /\ RestOK' /\ EntersAlone'
  <2>1. server' \in [Employees -> Facts] /\ trouble' \in Nat
    BY <1>8, <1>t, TroubleType DEF G!Change, RestOK
  <2> QED
    BY <1>8, <1>t, <2>1 DEF G!Change, GatesOK, TasksOK, RestOK, EntersAlone
<1>9. CASE G!Publish
  <2>1. offer' \in G!Update /\ trouble' \in Nat
    BY <1>9, <1>t, TroubleType DEF G!Publish, RestOK
  <2> QED
    BY <1>9, <1>t, <2>1 DEF G!Publish, GatesOK, TasksOK, RestOK, EntersAlone
<1>10. CASE UNCHANGED G!vars
  BY <1>10, <1>t DEF G!vars, GatesOK, TasksOK, RestOK, EntersAlone
<1> QED
  BY <1>1, <1>2, <1>3, <1>4, <1>5, <1>6, <1>7, <1>8, <1>9, <1>10 DEF G!Next

\* Every variable of the gate keeps its type.
THEOREM GateTypeCorrect == ASSUME FactsTyped PROVE G!Spec => []G!TypeOK
<1>1. G!Init => G!TypeOK /\ EntersAlone
  BY InitGateTypeOK
<1>2. (G!TypeOK /\ EntersAlone) /\ [G!Next]_G!vars => (G!TypeOK /\ EntersAlone)'
  BY NextGateTypeOK
<1> QED
  BY <1>1, <1>2, PTL DEF G!Spec

-----------------------------------------------------------------------------
(***************************************************************************)
(* A gate that is shut, or open, for who is logged in                      *)
(***************************************************************************)

\* e is logged in, and no task under way is for anybody else.
For(task, e) == task.pc # "asleep" => task.as = e
Alone(e) == session = e /\ For(entering, e) /\ For(userInfo, e) /\ For(policySync, e)

\* The server's "no" has arrived: to the plan, to the attendance, to the result.
PlanGone(e) ==
    /\ ~server[e].plan
    /\ plan # "yes"
    /\ userInfo.pc \in {"status", "subscription"} => ~userInfo.got
WentHome(e) == server[e].attendance = "AFTER_WORK" /\ attendance = "AFTER_WORK"
NotIn(e) == server[e].result = "zero" /\ result \in {"none", "zero"}

Shut(e) == Alone(e) /\ (PlanGone(e) \/ WentHome(e) \/ NotIn(e))

\* Every "yes" has arrived, and no logout has still to store its "no".
Open(e) ==
    /\ Alone(e)
    /\ G!MustTrack(e)
    /\ G!Passes
    /\ ~exiting
    /\ userInfo.pc \in {"status", "subscription"} => userInfo.got
    /\ policySync.pc = "answered" => policySync.got

Undisturbed(e) == session' = session /\ server'[e] = server[e]

\* No poll passes a gate that is shut, and it stays shut as long as e stays logged
\* in and the server stays with its answer: whatever the loops, a login and the
\* update check store, and in whichever order.
ShutStaysShut ==
    [][\A e \in Employees : Shut(e) => ~G!Passes /\ (Undisturbed(e) => Shut(e)')]_G!vars

\* A gate that is open stays open until the user or the server's answer changes,
\* or a version that is no longer allowed is found.
OpenStaysOpen ==
    [][\A e \in Employees :
          /\ Open(e) /\ Undisturbed(e) /\ ~(G!UpdateChecked /\ G!Outdated(offer))
          => Open(e)']_G!vars

\* The tasks of others do not begin while e stays logged in.
LEMMA AloneStays ==
    ASSUME G!TypeOK, [G!Next]_G!vars, NEW e \in Employees, Alone(e), Undisturbed(e)
    PROVE  Alone(e)'
<1> USE DEF G!tasks
<1>e. session = e /\ e # NoUser
  BY UsersAssumption DEF Alone
<1>t. TasksOK
  BY GateTypeParts
<1>1. ~(\E u \in Employees : G!LoginBegin(u)) /\ session' = e
  BY <1>e DEF G!LoginBegin, Undisturbed
<1>2. For(entering, e)'
  <2>1. \/ entering' = entering \/ entering'.pc = "asleep"
        \/ entering'.as = entering.as /\ entering.pc # "asleep"
    BY <1>1, <1>t, AsleepType
       DEF G!Next, G!vars, G!Poll, G!LoginStep, G!LoginPlan, G!LoginEnter, G!LoginLoads,
           G!LoginLoad, G!LoginGoto, G!LoginFails, G!LogoutClicked, G!LogoutStatus,
           G!InfoStep, G!InfoStart, G!InfoPlan, G!InfoStatus, G!InfoSubscription,
           G!InfoAttendance, G!InfoWork, G!InfoForcesLogout, G!InfoFails, G!PolicyStep,
           G!PolicyStart, G!PolicyAnswered, G!PolicyStored, G!PolicyFails, G!UpdateChecked,
           G!Publish, G!Change, TasksOK, EnteringType, G!Task
  <2> QED
    BY <2>1 DEF Alone, For
<1>3. For(userInfo, e)'
  <2>1. \/ userInfo' = userInfo \/ userInfo'.pc = "asleep" \/ userInfo'.as = session
        \/ userInfo'.as = userInfo.as /\ userInfo.pc # "asleep"
    BY <1>1, <1>t, AsleepType
       DEF G!Next, G!vars, G!Poll, G!LoginStep, G!LoginPlan, G!LoginEnter, G!LoginLoads,
           G!InfoGoto, G!LoginFails, G!LogoutClicked, G!LogoutStatus, G!InfoStep,
           G!InfoStart, G!InfoPlan, G!InfoStatus, G!InfoSubscription, G!InfoAttendance,
           G!InfoWork, G!InfoForcesLogout, G!InfoFails, G!PolicyStep, G!PolicyStart,
           G!PolicyAnswered, G!PolicyStored, G!PolicyFails, G!UpdateChecked, G!Publish, G!Change,
           TasksOK, InfoType, G!Task, G!Asleep
  <2> QED
    BY <2>1, <1>e DEF Alone, For
<1>4. For(policySync, e)'
  <2>1. \/ policySync' = policySync \/ policySync'.pc = "asleep" \/ policySync'.as = session
        \/ policySync'.as = policySync.as /\ policySync.pc # "asleep"
    BY <1>1, <1>t, AsleepType
       DEF G!Next, G!vars, G!Poll, G!LoginStep, G!LoginPlan, G!LoginEnter, G!LoginLoads,
           G!LoginFails, G!LogoutClicked, G!LogoutStatus, G!InfoStep, G!InfoStart,
           G!InfoPlan, G!InfoStatus, G!InfoSubscription, G!InfoAttendance, G!InfoWork,
           G!InfoForcesLogout, G!InfoFails, G!PolicyStep, G!PolicyStart, G!PolicyAnswered,
           G!PolicyStored, G!PolicyFails, G!UpdateChecked, G!Publish, G!Change, TasksOK, PolicyType,
           G!Task, G!Asleep
  <2> QED
    BY <2>1, <1>e DEF Alone, For
<1> QED
  BY <1>1, <1>2, <1>3, <1>4 DEF Alone

\* Who is alone and logged in has no login that has still to set the session.
LEMMA NotEntering ==
    ASSUME EntersAlone, NEW e \in Employees, Alone(e)
    PROVE  entering.pc \notin {"plan", "enter"} /\ session # NoUser
BY UsersAssumption DEF EntersAlone, Alone

\* "No" to the plan stays: a cycle that has asked has been told so.
LEMMA PlanGoneStays ==
    ASSUME G!TypeOK, EntersAlone, [G!Next]_G!vars,
           NEW e \in Employees, Alone(e), Undisturbed(e), PlanGone(e)
    PROVE  PlanGone(e)'
<1> USE DEF G!gates, G!tasks
<1>t. TasksOK
  BY GateTypeParts
<1>n. entering.pc \notin {"plan", "enter"} /\ session # NoUser
  BY NotEntering
<1>1. plan' # "yes"
  <2>1. plan' = plan \/ plan' = "none" \/ G!InfoSubscription
    BY <1>n
       DEF G!Next, G!vars, G!Poll, G!LoginBegin, G!LoginStep, G!LoginPlan, G!LoginEnter,
           G!LoginLoads, G!LoginFails, G!LogoutClicked, G!LogoutStatus, G!Logout,
           G!ClearAll, G!InfoStep, G!InfoStart, G!InfoPlan, G!InfoStatus, G!InfoAttendance,
           G!InfoWork, G!InfoForcesLogout, G!InfoFails, G!PolicyStep, G!PolicyStart,
           G!PolicyAnswered, G!PolicyStored, G!PolicyFails, G!UpdateChecked, G!Publish, G!Change
  <2>2. G!InfoSubscription => plan' = "no"
    BY DEF G!InfoSubscription, G!YesNo, PlanGone
  <2> QED
    BY <2>1, <2>2 DEF PlanGone
<1>2. userInfo'.pc \in {"status", "subscription"} => ~userInfo'.got
  <2>1. \/ userInfo' = userInfo \/ userInfo'.pc \notin {"status", "subscription"}
        \/ G!InfoPlan \/ G!InfoStatus
    BY <1>t, AsleepType
       DEF G!Next, G!vars, G!Poll, G!LoginBegin, G!LoginStep, G!LoginPlan, G!LoginEnter,
           G!LoginLoads, G!InfoGoto, G!LoginFails, G!LogoutClicked, G!LogoutStatus,
           G!InfoStep, G!InfoStart, G!InfoSubscription, G!InfoAttendance, G!InfoWork,
           G!InfoForcesLogout, G!InfoFails, G!PolicyStep, G!PolicyStart, G!PolicyAnswered,
           G!PolicyStored, G!PolicyFails, G!UpdateChecked, G!Publish, G!Change, TasksOK, InfoType,
           G!Task, G!Asleep
  <2>2. G!InfoPlan => userInfo'.got = server[e].plan
    BY <1>t DEF G!InfoPlan, Alone, For, TasksOK, InfoType, G!Task
  <2>3. G!InfoStatus => userInfo'.got = userInfo.got /\ userInfo.pc = "status"
    BY <1>t DEF G!InfoStatus, G!InfoGoto, TasksOK, InfoType, G!Task
  <2> QED
    BY <2>1, <2>2, <2>3 DEF PlanGone
<1> QED
  BY <1>1, <1>2 DEF PlanGone, Undisturbed

\* "Off work" stays: nothing but an answer for e is stored.
LEMMA WentHomeStays ==
    ASSUME G!TypeOK, EntersAlone, [G!Next]_G!vars,
           NEW e \in Employees, Alone(e), Undisturbed(e), WentHome(e)
    PROVE  WentHome(e)'
<1> USE DEF G!gates, G!tasks
<1>n. entering.pc \notin {"plan", "enter"} /\ session # NoUser
  BY NotEntering
<1>1. attendance' = attendance \/ attendance' = server[e].attendance
  BY <1>n
     DEF G!Next, G!vars, G!Poll, G!LoginBegin, G!LoginStep, G!LoginPlan, G!LoginEnter,
         G!LoginLoads, G!LoginLoad, G!LoginFails, G!LogoutClicked, G!LogoutStatus,
         G!InfoStep, G!InfoStart, G!InfoPlan, G!InfoStatus, G!InfoSubscription,
         G!InfoAttendance, G!InfoWork, G!InfoForcesLogout, G!InfoFails, G!PolicyStep,
         G!PolicyStart, G!PolicyAnswered, G!PolicyStored, G!PolicyFails, G!UpdateChecked,
         G!Publish, G!Change, Alone, For
<1> QED
  BY <1>1 DEF WentHome, Undisturbed

\* "Not working" stays: the result is emptied, or that of an answer for e.
LEMMA NotInStays ==
    ASSUME G!TypeOK, EntersAlone, [G!Next]_G!vars,
           NEW e \in Employees, Alone(e), Undisturbed(e), NotIn(e)
    PROVE  NotIn(e)'
<1> USE DEF G!gates, G!tasks
<1>1. result' = result \/ result' = "none" \/ result' = server[e].result
  BY DEF G!Next, G!vars, G!Poll, G!LoginBegin, G!LoginStep, G!LoginPlan, G!LoginEnter,
         G!LoginLoads, G!LoginLoad, G!LoginFails, G!LogoutClicked, G!LogoutStatus, G!Logout,
         G!ClearAll, G!InfoStep, G!InfoStart, G!InfoPlan, G!InfoStatus, G!InfoSubscription,
         G!InfoAttendance, G!InfoWork, G!InfoForcesLogout, G!InfoFails, G!PolicyStep,
         G!PolicyStart, G!PolicyAnswered, G!PolicyStored, G!PolicyFails, G!UpdateChecked,
         G!Publish, G!Change, Alone, For
<1> QED
  BY <1>1 DEF NotIn, Undisturbed

\* A gate that is shut lets nothing pass and stays shut.
THEOREM NoTrackingOnceShut == ASSUME FactsTyped PROVE G!Spec => ShutStaysShut
<1>1. ASSUME G!TypeOK, EntersAlone, [G!Next]_G!vars, NEW e \in Employees, Shut(e)
      PROVE  ~G!Passes /\ (Undisturbed(e) => Shut(e)')
  <2>1. ~G!Passes
    BY <1>1 DEF Shut, PlanGone, WentHome, NotIn, G!Passes, G!EnablesTracking, G!Derive
  <2>2. Undisturbed(e) => Shut(e)'
    BY <1>1, AloneStays, PlanGoneStays, WentHomeStays, NotInStays DEF Shut
  <2> QED
    BY <2>1, <2>2
<1>2. G!Init => G!TypeOK /\ EntersAlone
  BY InitGateTypeOK
<1>3. (G!TypeOK /\ EntersAlone) /\ [G!Next]_G!vars => (G!TypeOK /\ EntersAlone)'
  BY NextGateTypeOK
<1>4. (G!TypeOK /\ EntersAlone) /\ [G!Next]_G!vars =>
        [\A e \in Employees : Shut(e) => ~G!Passes /\ (Undisturbed(e) => Shut(e)')]_G!vars
  BY <1>1
<1> QED
  BY <1>2, <1>3, <1>4, PTL DEF G!Spec, ShutStaysShut

\* "Yes" stays: nothing but an answer for e is stored, and nothing else shuts a gate.
LEMMA OpenStays ==
    ASSUME G!TypeOK, EntersAlone, [G!Next]_G!vars,
           NEW e \in Employees, Open(e), Undisturbed(e),
           ~(G!UpdateChecked /\ G!Outdated(offer))
    PROVE  Open(e)'
<1> USE DEF G!gates, G!tasks
<1>t. TasksOK /\ Alone(e)
  BY GateTypeParts DEF Open
<1>n. entering.pc \notin {"plan", "enter"} /\ session # NoUser /\ session' = session
  BY <1>t, NotEntering DEF Undisturbed
<1>m. /\ server[e].plan /\ server[e].policy
      /\ server[e].attendance = "WORKING" /\ server[e].result = "positive"
  BY DEF Open, G!MustTrack
<1>0. /\ ~(\E u \in Employees : G!LoginBegin(u)) /\ ~G!LoginPlan /\ ~G!LoginEnter
      /\ ~G!LogoutClicked /\ ~G!InfoForcesLogout /\ ~G!LogoutStatus
  BY <1>n DEF G!LoginBegin, G!LoginPlan, G!LoginEnter, G!LogoutClicked, G!InfoForcesLogout,
              G!Logout,
              G!LogoutStatus, Open
<1>1. plan' = "yes"
  <2>1. plan' = plan \/ G!InfoSubscription
    BY <1>0
       DEF G!Next, G!vars, G!Poll, G!LoginStep, G!LoginLoads, G!LoginFails, G!InfoStep,
           G!InfoStart, G!InfoPlan, G!InfoStatus, G!InfoAttendance, G!InfoWork, G!InfoFails,
           G!PolicyStep, G!PolicyStart, G!PolicyAnswered, G!PolicyStored, G!PolicyFails,
           G!UpdateChecked, G!Publish, G!Change
  <2>2. G!InfoSubscription => plan' = "yes"
    BY DEF G!InfoSubscription, G!YesNo, Open
  <2> QED
    BY <2>1, <2>2 DEF Open, G!Passes
<1>2. canTrack'
  <2>1. \/ canTrack' = canTrack
        \/ canTrack' = (canTrack /\ server[e].policy)
        \/ G!InfoStatus \/ G!PolicyStored \/ G!UpdateChecked
    BY <1>0, <1>t
       DEF G!Next, G!vars, G!Poll, G!LoginStep, G!LoginLoads, G!LoginLoad, G!LoginFails,
           G!InfoStep, G!InfoStart, G!InfoPlan, G!InfoSubscription, G!InfoAttendance,
           G!InfoWork, G!InfoFails, G!PolicyStep, G!PolicyStart, G!PolicyAnswered,
           G!PolicyFails, G!Publish, G!Change, Alone, For
  <2>2. G!InfoStatus => canTrack'
    BY DEF G!InfoStatus, Open
  <2>3. G!PolicyStored => canTrack'
    BY DEF G!PolicyStored, Open
  <2>4. G!UpdateChecked => canTrack'
    BY DEF G!UpdateChecked, Open, G!Passes
  <2> QED
    BY <1>m, <2>1, <2>2, <2>3, <2>4 DEF Open, G!Passes
<1>3. attendance' \in {"WORKING", "UNKNOWN"}
  <2>1. attendance' = attendance \/ attendance' = server[e].attendance
    BY <1>0, <1>t
       DEF G!Next, G!vars, G!Poll, G!LoginStep, G!LoginLoads, G!LoginLoad, G!LoginFails,
           G!InfoStep, G!InfoStart, G!InfoPlan, G!InfoStatus, G!InfoSubscription,
           G!InfoAttendance, G!InfoWork, G!InfoFails, G!PolicyStep, G!PolicyStart,
           G!PolicyAnswered, G!PolicyStored, G!PolicyFails, G!UpdateChecked, G!Publish, G!Change,
           Alone, For
  <2> QED
    BY <1>m, <2>1 DEF Open, G!Passes, G!EnablesTracking
<1>4. G!Derive(result) = "WorkingNow" /\ G!Derive(result') = "WorkingNow"
  <2>1. result' = result \/ result' = server[e].result
    BY <1>0, <1>t
       DEF G!Next, G!vars, G!Poll, G!LoginStep, G!LoginLoads, G!LoginLoad, G!LoginFails,
           G!InfoStep, G!InfoStart, G!InfoPlan, G!InfoStatus, G!InfoSubscription,
           G!InfoAttendance, G!InfoWork, G!InfoFails, G!PolicyStep, G!PolicyStart,
           G!PolicyAnswered, G!PolicyStored, G!PolicyFails, G!UpdateChecked, G!Publish, G!Change,
           Alone, For
  <2>2. G!Derive("positive") = "WorkingNow"
    BY DEF G!Derive
  <2> QED
    BY <1>m, <2>1, <2>2 DEF Open, G!Passes
<1>5. ~exiting'
  BY <1>0
     DEF G!Next, G!vars, G!Poll, G!LoginStep, G!LoginLoads, G!LoginFails, G!InfoStep,
         G!InfoStart, G!InfoPlan, G!InfoStatus, G!InfoSubscription, G!InfoAttendance,
         G!InfoWork, G!InfoFails, G!PolicyStep, G!PolicyStart, G!PolicyAnswered,
         G!PolicyStored, G!PolicyFails, G!UpdateChecked, G!Publish, G!Change, Open
<1>6. userInfo'.pc \in {"status", "subscription"} => userInfo'.got
  <2>1. \/ userInfo' = userInfo \/ userInfo'.pc \notin {"status", "subscription"}
        \/ G!InfoPlan \/ G!InfoStatus
    BY <1>0, <1>t, AsleepType
       DEF G!Next, G!vars, G!Poll, G!LoginStep, G!LoginLoads, G!InfoGoto, G!LoginFails,
           G!InfoStep, G!InfoStart, G!InfoSubscription, G!InfoAttendance, G!InfoWork,
           G!InfoFails, G!PolicyStep, G!PolicyStart, G!PolicyAnswered, G!PolicyStored,
           G!PolicyFails, G!UpdateChecked, G!Publish, G!Change, TasksOK, InfoType, G!Task, G!Asleep
  <2>2. G!InfoPlan => userInfo'.got = server[e].plan
    BY <1>t DEF G!InfoPlan, Alone, For, TasksOK, InfoType, G!Task
  <2>3. G!InfoStatus => userInfo'.got = userInfo.got /\ userInfo.pc = "status"
    BY <1>t DEF G!InfoStatus, G!InfoGoto, TasksOK, InfoType, G!Task
  <2> QED
    BY <1>m, <2>1, <2>2, <2>3 DEF Open
<1>7. policySync'.pc = "answered" => policySync'.got
  <2>1. policySync' = policySync \/ policySync'.pc # "answered" \/ G!PolicyAnswered
    BY <1>0, AsleepType
       DEF G!Next, G!vars, G!Poll, G!LoginStep, G!LoginLoads, G!LoginFails, G!InfoStep,
           G!InfoStart, G!InfoPlan, G!InfoStatus, G!InfoSubscription, G!InfoAttendance,
           G!InfoWork, G!InfoFails, G!PolicyStep, G!PolicyStart, G!PolicyStored,
           G!PolicyFails, G!UpdateChecked, G!Publish, G!Change, G!Asleep
  <2>2. G!PolicyAnswered => policySync'.got = server[e].policy
    BY <1>t DEF G!PolicyAnswered, Alone, For, TasksOK, PolicyType, G!Task
  <2> QED
    BY <1>m, <2>1, <2>2 DEF Open
<1>8. G!Passes'
  BY <1>1, <1>2, <1>3, <1>4 DEF G!Passes, G!EnablesTracking
<1>9. Alone(e)'
  BY <1>t, AloneStays
<1>10. G!MustTrack(e)'
  BY DEF Open, Undisturbed, G!MustTrack
<1> QED
  BY <1>5, <1>6, <1>7, <1>8, <1>9, <1>10 DEF Open

\* A gate that is open stays open.
THEOREM TrackingOnceOpen == ASSUME FactsTyped PROVE G!Spec => OpenStaysOpen
<1>2. G!Init => G!TypeOK /\ EntersAlone
  BY InitGateTypeOK
<1>3. (G!TypeOK /\ EntersAlone) /\ [G!Next]_G!vars => (G!TypeOK /\ EntersAlone)'
  BY NextGateTypeOK
<1>4. (G!TypeOK /\ EntersAlone) /\ [G!Next]_G!vars =>
        [\A e \in Employees :
            /\ Open(e) /\ Undisturbed(e) /\ ~(G!UpdateChecked /\ G!Outdated(offer))
            => Open(e)']_G!vars
  BY OpenStays
<1> QED
  BY <1>2, <1>3, <1>4, PTL DEF G!Spec, OpenStaysOpen

-----------------------------------------------------------------------------
(***************************************************************************)
(* Nobody is logged in                                                     *)
(***************************************************************************)

\* A user-info cycle that has still to store the plan.
StoresPlan == userInfo.pc \in {"plan", "status", "subscription"}

\* Nobody is logged in or about to be, and no plan is there or still to be stored.
NobodyTracked ==
    /\ session = NoUser
    /\ entering.pc \notin {"plan", "enter"}
    /\ plan # "yes"
    /\ ~StoresPlan

\* A logout, by the button or forced, shuts the gate in the very step in which it ends
\* the session, unless a user-info cycle has still to store the plan.
LogoutShutsGate ==
    [][session # NoUser /\ session' = NoUser /\ ~StoresPlan' => NobodyTracked']_G!vars

\* And it stays shut until somebody begins to log in: the policy loop, the second store
\* of the logout, the rest of a cycle and the loads of a login that was overtaken by the
\* logout may all still come in.
NobodyIsTracked ==
    [][NobodyTracked => ~G!Passes /\ (NobodyTracked' \/ entering'.pc = "plan")]_G!vars

\* Only a logout ends a session; it empties the plan and leaves the login alone.
LEMMA SessionEnds ==
    ASSUME EntersAlone, [G!Next]_G!vars, session # NoUser, session' = NoUser
    PROVE  plan' = "none" /\ entering' = entering /\ entering.pc \notin {"plan", "enter"}
<1>1. entering.pc \notin {"plan", "enter"}
  BY DEF EntersAlone
<1>2. ASSUME NEW u \in Employees PROVE ~G!LoginBegin(u) /\ ~G!Change(u)
  BY DEF G!LoginBegin, G!Change
<1>3. ~G!Poll /\ ~G!LoginStep /\ ~G!LoginFails /\ ~UNCHANGED G!vars
  BY <1>1 DEF G!Poll, G!LoginStep, G!LoginPlan, G!LoginEnter, G!LoginLoads, G!LoginFails, G!vars
<1>4. ~G!LogoutStatus /\ ~G!InfoStep /\ ~G!InfoFails
  BY DEF G!LogoutStatus, G!InfoStep, G!InfoStart, G!InfoPlan, G!InfoStatus,
         G!InfoSubscription, G!InfoAttendance, G!InfoWork, G!InfoFails
<1>5. ~G!PolicyStep /\ ~G!PolicyFails /\ ~G!UpdateChecked /\ ~G!Publish
  BY DEF G!PolicyStep, G!PolicyStart, G!PolicyAnswered, G!PolicyStored, G!PolicyFails,
         G!UpdateChecked, G!Publish
<1>6. G!LogoutClicked \/ G!InfoForcesLogout
  BY <1>2, <1>3, <1>4, <1>5 DEF G!Next
<1> QED
  BY <1>1, <1>6 DEF G!LogoutClicked, G!InfoForcesLogout, G!Logout, G!ClearAll

\* With nobody logged in, nothing but the begin of a login changes any of it.
LEMMA NobodyStays ==
    ASSUME G!TypeOK, [G!Next]_G!vars, NobodyTracked
    PROVE  NobodyTracked' \/ entering'.pc = "plan"
<1> USE DEF G!gates, G!tasks, NobodyTracked, StoresPlan
<1>t. entering \in EnteringType /\ userInfo \in InfoType
  BY GateTypeParts DEF TasksOK
<1>1. ASSUME NEW u \in Employees, G!LoginBegin(u) PROVE entering'.pc = "plan"
  BY <1>1, AsleepType DEF G!LoginBegin, G!Asleep
<1>2. CASE G!Poll \/ UNCHANGED G!vars \/ G!LogoutStatus \/ G!UpdateChecked \/ G!Publish
  BY <1>2 DEF G!Poll, G!vars, G!LogoutStatus, G!UpdateChecked, G!Publish
<1>3. CASE G!LoginStep
  <2>1. G!LoginLoads
    BY <1>3 DEF G!LoginStep, G!LoginPlan, G!LoginEnter
  <2>2. entering'.pc \in {"result", "policy", "asleep"}
    BY <1>t, <2>1, AsleepType
       DEF G!LoginLoads, G!LoginLoad, G!LoginGoto, EnteringType, G!Task
  <2> QED
    BY <2>1, <2>2 DEF G!LoginLoads
<1>4. CASE G!LoginFails
  <2>1. entering'.pc \in {"result", "policy", "asleep"}
    BY <1>t, <1>4, AsleepType DEF G!LoginFails, G!LoginGoto, EnteringType, G!Task
  <2> QED
    BY <1>4, <2>1 DEF G!LoginFails
<1>5. ~G!LogoutClicked
  BY DEF G!LogoutClicked
<1>6. CASE G!InfoStep
  <2>1. G!InfoAttendance \/ G!InfoWork
    BY <1>6 DEF G!InfoStep, G!InfoStart, G!InfoPlan, G!InfoStatus, G!InfoSubscription
  <2>2. userInfo'.pc \in {"work", "asleep"}
    BY <1>t, <2>1, AsleepType DEF G!InfoAttendance, G!InfoWork, G!InfoGoto, InfoType, G!Task
  <2> QED
    BY <2>1, <2>2 DEF G!InfoAttendance, G!InfoWork
<1>7. CASE G!InfoForcesLogout
  BY <1>7, AsleepType DEF G!InfoForcesLogout, G!Logout, G!ClearAll
<1>8. CASE G!InfoFails
  <2>1. userInfo'.pc \in {"work", "asleep"}
    BY <1>t, <1>8, AsleepType DEF G!InfoFails, G!InfoGoto, InfoType, G!Task
  <2> QED
    BY <1>8, <2>1 DEF G!InfoFails
<1>9. CASE G!PolicyStep \/ G!PolicyFails
  BY <1>9 DEF G!PolicyStep, G!PolicyStart, G!PolicyAnswered, G!PolicyStored, G!PolicyFails
<1>10. ASSUME NEW e \in Employees, G!Change(e) PROVE NobodyTracked'
  BY <1>10 DEF G!Change
<1> QED
  BY <1>1, <1>2, <1>3, <1>4, <1>5, <1>6, <1>7, <1>8, <1>9, <1>10 DEF G!Next

\* Who has logged out is not tracked, but for the one cycle that run gate_logged_out shows.
THEOREM LoggedOutStaysShut ==
    ASSUME FactsTyped PROVE G!Spec => LogoutShutsGate /\ NobodyIsTracked
<1>1. G!Init => G!TypeOK /\ EntersAlone
  BY InitGateTypeOK
<1>2. (G!TypeOK /\ EntersAlone) /\ [G!Next]_G!vars => (G!TypeOK /\ EntersAlone)'
  BY NextGateTypeOK
<1>3. ASSUME EntersAlone, [G!Next]_G!vars, session # NoUser, session' = NoUser, ~StoresPlan'
      PROVE  NobodyTracked'
  BY <1>3, SessionEnds DEF NobodyTracked, StoresPlan
<1>4. (G!TypeOK /\ EntersAlone) /\ [G!Next]_G!vars =>
        [session # NoUser /\ session' = NoUser /\ ~StoresPlan' => NobodyTracked']_G!vars
  BY <1>3
<1>5. NobodyTracked => ~G!Passes
  BY DEF NobodyTracked, G!Passes
<1>6. (G!TypeOK /\ EntersAlone) /\ [G!Next]_G!vars =>
        [NobodyTracked => ~G!Passes /\ (NobodyTracked' \/ entering'.pc = "plan")]_G!vars
  BY <1>5, NobodyStays
<1> QED
  BY <1>1, <1>2, <1>4, <1>6, PTL DEF G!Spec, LogoutShutsGate, NobodyIsTracked

=============================================================================
