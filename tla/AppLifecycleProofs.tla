-------------------------- MODULE AppLifecycleProofs --------------------------
(***************************************************************************)
(* Proofs about AppLifecycle, for any number of starts, faults and waiting *)
(* commands: its types, that the process only goes away when somebody      *)
(* asked for it, that "Quit" has its timer, that what the program puts     *)
(* away can be brought back and "Open" is not lost, and the ways into the  *)
(* login view and out of it.                                               *)
(***************************************************************************)
EXTENDS AppLifecycle, SequenceTheorems, TLAPS

-----------------------------------------------------------------------------
(***************************************************************************)
(* Types                                                                   *)
(***************************************************************************)

\* A process that is off has nothing in memory, a quitting one has no icon.
LEMMA OffTypes ==
    ASSUME Off
    PROVE  /\ proc' = "off" /\ tray' = FALSE /\ commands' \in Seq(Commands) /\ timer' = FALSE
           /\ reallyQuit' = FALSE /\ window' = "minimized" /\ xClicked' = FALSE
           /\ route' = "Login" /\ loggedIn' = FALSE /\ hung' = FALSE
           /\ login' \in [Tasks -> {"idle", "auth", "loads"}]
           /\ \A t \in Tasks : login'[t] = "idle"
BY DEF Off

\* A fault leaves a number of faults.
LEMMA FailType == ASSUME faults \in Nat, Fail PROVE faults' \in Nat
BY DEF Fail

\* The routes a frame passes through are ones that something leads to.
LEMMA RouteTypes ==
    ASSUME TypeOK
    PROVE  /\ Opened \in Routes \ {"UpdateNotice", "Disabled"}
           /\ Landed \in Routes \ {"UpdateNotice", "Disabled"}
           /\ Links(Landed) \subseteq Routes \ {"UpdateNotice", "Disabled"}
<1>1. Opened \in Routes \ {"UpdateNotice", "Disabled"}
  BY DEF TypeOK, Opened, Routes
<1>2. Landed \in Routes \ {"UpdateNotice", "Disabled"}
  BY <1>1 DEF Landed, Routes
<1>3. PICK r \in Routes \ {"UpdateNotice", "Disabled"} : r = Landed
  BY <1>2
<1>4. Links(r) \subseteq Routes \ {"UpdateNotice", "Disabled"}
  BY <1>3 DEF Links, Routes
<1> QED
  BY <1>1, <1>2, <1>3, <1>4

\* What a frame does to the window and the icon.
LEMMA FrameShellTypes ==
    ASSUME TypeOK, Drawing, FrameShell
    PROVE  /\ proc' \in {"running", "closing"} /\ tray' \in BOOLEAN
           /\ commands' \in Seq(Commands) /\ timer' \in BOOLEAN
           /\ reallyQuit' \in BOOLEAN /\ window' \in {"shown", "minimized"}
           /\ xClicked' \in BOOLEAN
           /\ reallyQuit' => ~tray' /\ proc' = "closing"
           /\ proc' = "closing" => ~tray'
<1>1. proc = "running" /\ ~reallyQuit
  BY DEF Drawing, TypeOK
<1>2. commands' \in Seq(Commands)
  <2>1. CASE Command = "none"
    BY <2>1 DEF FrameShell, TypeOK
  <2>2. CASE Command # "none"
    <3>1. commands # <<>> /\ commands \in Seq(Commands)
      BY <2>2 DEF Command, TypeOK
    <3>2. Tail(commands) \in Seq(Commands)
      BY <3>1, HeadTailProperties
    <3> QED
      BY <2>2, <3>2 DEF FrameShell
  <2> QED
    BY <2>1, <2>2
<1>3. proc' \in {"running", "closing"} /\ timer' \in BOOLEAN /\ window' \in {"shown", "minimized"}
      /\ xClicked' \in BOOLEAN
  BY <1>1 DEF FrameShell, TypeOK
<1>4. tray' \in BOOLEAN /\ reallyQuit' \in BOOLEAN
  BY DEF FrameShell, TypeOK, TrayStays
<1>5. reallyQuit' => ~tray' /\ proc' = "closing"
  BY <1>1 DEF FrameShell, TrayStays
<1>6. proc' = "closing" => ~tray'
  BY <1>1 DEF FrameShell, TrayStays, Intercedes
<1> QED
  BY <1>2, <1>3, <1>4, <1>5, <1>6

\* The initial types.
LEMMA InitTypeOK == Init => TypeOK
<1> SUFFICES ASSUME Init PROVE TypeOK
  OBVIOUS
<1>1. starts \in Nat /\ faults \in Nat
  BY BoundsAssumption DEF Init
<1>2. commands \in Seq(Commands) /\ login \in [Tasks -> {"idle", "auth", "loads"}]
      /\ \A t \in Tasks : login[t] = "idle"
  BY DEF Init
<1> QED
  BY <1>1, <1>2 DEF Init, TypeOK, Routes

\* A frame keeps the types.
LEMMA FrameTypeOK ==
    ASSUME TypeOK, Frame \/ Navigate \/ LoginClicked \/ LogoutClicked PROVE TypeOK'
<1>1. Drawing /\ FrameShell /\ UNCHANGED <<hung, starts>>
  BY DEF Frame, Navigate, LoginClicked, LogoutClicked
<1>2. route' \in Routes \ {"UpdateNotice", "Disabled"}
  BY RouteTypes DEF Frame, Navigate, LoginClicked, LogoutClicked, Routes
<1>3. loggedIn' \in BOOLEAN
  BY DEF Frame, Navigate, LoginClicked, LogoutClicked, TypeOK
<1>4. login' \in [Tasks -> {"idle", "auth", "loads"}]
  BY DEF Frame, Navigate, LoginClicked, LogoutClicked, TypeOK
<1>5. faults' \in Nat
  BY FailType DEF Frame, Navigate, LoginClicked, LogoutClicked, TypeOK
<1>6. hung' \in BOOLEAN /\ starts' \in Nat
  BY <1>1 DEF TypeOK
<1>7. proc' # "off"
  BY <1>1, FrameShellTypes
<1> QED
  BY <1>1, <1>2, <1>3, <1>4, <1>5, <1>6, <1>7, FrameShellTypes DEF TypeOK

\* A task or the server changes the session only.
LEMMA LoginTypeOK ==
    ASSUME TypeOK, (\E t \in Tasks : LoginStep(t) \/ LoginFails(t)) \/ ForcedLogout
    PROVE  TypeOK'
<1> USE DEF shell
<1>1. UNCHANGED <<proc, tray, commands, timer, reallyQuit, window, xClicked, route, hung, starts>>
  BY DEF LoginStep, LoginSucceeds, LoginEnds, LoginFails, ForcedLogout
<1>2. loggedIn' \in BOOLEAN
  BY DEF LoginStep, LoginSucceeds, LoginEnds, LoginFails, ForcedLogout, TypeOK
<1>3. login' \in [Tasks -> {"idle", "auth", "loads"}]
  BY DEF LoginStep, LoginSucceeds, LoginEnds, LoginFails, ForcedLogout, TypeOK
<1>4. faults' \in Nat
  BY FailType DEF LoginStep, LoginSucceeds, LoginEnds, LoginFails, ForcedLogout, TypeOK
<1>5. proc # "off"
  BY DEF LoginStep, LoginSucceeds, LoginEnds, LoginFails, ForcedLogout, TypeOK
<1> QED
  BY <1>1, <1>2, <1>3, <1>4, <1>5 DEF TypeOK

\* Every step keeps the types.
LEMMA NextTypeOK == TypeOK /\ [Next]_vars => TypeOK'
<1> SUFFICES ASSUME TypeOK, [Next]_vars PROVE TypeOK'
  OBVIOUS
<1> USE DEF shell
<1>1. CASE Start
  <2>1. tray' \in BOOLEAN /\ faults' \in Nat
    BY <1>1, FailType DEF Start, TypeOK
  <2>2. starts' \in Nat /\ proc' = "running" /\ window' = "shown"
    BY <1>1 DEF Start, TypeOK
  <2>3. login' \in [Tasks -> {"idle", "auth", "loads"}]
    BY <1>1 DEF Start, TypeOK
  <2>4. UNCHANGED <<commands, timer, reallyQuit, xClicked, route, loggedIn, hung>> /\ ~reallyQuit
    BY <1>1 DEF Start, TypeOK
  <2> QED
    BY <2>1, <2>2, <2>3, <2>4 DEF TypeOK
<1>2. CASE Closed \/ ForcedExit \/ Crash
  <2>1. Off /\ UNCHANGED starts
    BY <1>2 DEF Closed, ForcedExit, Crash
  <2>2. faults' \in Nat
    BY <1>2, FailType DEF Closed, ForcedExit, Crash, TypeOK
  <2> QED
    BY <2>1, <2>2, OffTypes DEF TypeOK, Routes
<1>3. CASE Hang
  <2>1. faults' \in Nat
    BY <1>3, FailType DEF Hang, TypeOK
  <2> QED
    BY <1>3, <2>1 DEF Hang, TypeOK
<1>4. ASSUME NEW c \in Commands, TrayClick(c) PROVE TypeOK'
  <2>1. commands' \in Seq(Commands) /\ timer' \in BOOLEAN
    BY <1>4, AppendProperties DEF TrayClick, TypeOK
  <2>2. UNCHANGED <<proc, tray, reallyQuit, window, xClicked, route, loggedIn, login, hung,
                    starts, faults>> /\ tray
    BY <1>4 DEF TrayClick
  <2> QED
    BY <2>1, <2>2 DEF TypeOK
<1>5. CASE XClick \/ TaskbarClick
  <2>1. xClicked' \in BOOLEAN /\ window' \in {"shown", "minimized"}
    BY <1>5 DEF XClick, TaskbarClick, TypeOK
  <2>2. UNCHANGED <<proc, tray, commands, timer, reallyQuit, route, loggedIn, login, hung, starts,
                    faults>>
    BY <1>5 DEF XClick, TaskbarClick
  <2> QED
    BY <2>1, <2>2 DEF TypeOK
<1>6. CASE Frame \/ Navigate \/ LoginClicked \/ LogoutClicked
  BY <1>6, FrameTypeOK
<1>7. CASE (\E t \in Tasks : LoginStep(t) \/ LoginFails(t)) \/ ForcedLogout
  BY <1>7, LoginTypeOK
<1>8. CASE UNCHANGED vars
  BY <1>8 DEF vars, TypeOK
<1> QED
  BY <1>1, <1>2, <1>3, <1>4, <1>5, <1>6, <1>7, <1>8 DEF Next

\* Every variable keeps its type, and a process that is off has left nothing.
THEOREM TypeCorrect == Spec => []TypeOK
BY InitTypeOK, NextTypeOK, PTL DEF Spec

-----------------------------------------------------------------------------
(***************************************************************************)
(* The process stays in the background                                     *)
(***************************************************************************)

\* A window that has been told to close has no icon (any more).
ClosingHasNoTray == proc = "closing" => ~tray

\* Every step keeps it: a close request is only granted without an icon.
LEMMA NextClosing == TypeOK /\ ClosingHasNoTray /\ [Next]_vars => ClosingHasNoTray'
<1> SUFFICES ASSUME TypeOK, ClosingHasNoTray, [Next]_vars PROVE ClosingHasNoTray'
  OBVIOUS
<1>1. CASE Start
  BY <1>1 DEF Start, ClosingHasNoTray
<1>2. CASE Closed \/ ForcedExit \/ Crash
  BY <1>2 DEF Closed, ForcedExit, Crash, Off, ClosingHasNoTray
<1>3. CASE Frame \/ Navigate \/ LoginClicked \/ LogoutClicked
  <2>1. Drawing /\ FrameShell
    BY <1>3 DEF Frame, Navigate, LoginClicked, LogoutClicked
  <2> QED
    BY <2>1, FrameShellTypes DEF ClosingHasNoTray
<1>4. CASE Hang \/ XClick \/ TaskbarClick \/ (\E c \in Commands : TrayClick(c))
  <2>1. UNCHANGED <<proc, tray>>
    BY <1>4 DEF Hang, XClick, TaskbarClick, TrayClick, shell
  <2> QED
    BY <2>1 DEF ClosingHasNoTray
<1>5. CASE (\E t \in Tasks : LoginStep(t) \/ LoginFails(t)) \/ ForcedLogout \/ UNCHANGED vars
  <2>1. UNCHANGED <<proc, tray>>
    BY <1>5 DEF LoginStep, LoginSucceeds, LoginEnds, LoginFails, ForcedLogout, vars, shell
  <2> QED
    BY <2>1 DEF ClosingHasNoTray
<1> QED
  BY <1>1, <1>2, <1>3, <1>4, <1>5 DEF Next

\* Closing the window never ends the recording as long as there is an icon.
THEOREM InBackground == Spec => StaysInBackground
<1>1. Init => ClosingHasNoTray
  BY DEF Init, ClosingHasNoTray
<1>2. TypeOK /\ ClosingHasNoTray /\ [Next]_vars =>
          [proc # "off" /\ proc' = "off" /\ ~Crash => timer \/ ~tray]_vars
  <2> SUFFICES ASSUME TypeOK, ClosingHasNoTray, Next, proc # "off", proc' = "off", ~Crash
               PROVE  timer \/ ~tray
    OBVIOUS
  <2>1. CASE Closed
    BY <2>1 DEF Closed, ClosingHasNoTray
  <2>2. CASE ForcedExit
    BY <2>2 DEF ForcedExit
  <2>3. ~Start
    BY DEF Start
  <2>4. ~(Frame \/ Navigate \/ LoginClicked \/ LogoutClicked)
    <3> SUFFICES ASSUME Frame \/ Navigate \/ LoginClicked \/ LogoutClicked PROVE FALSE
      OBVIOUS
    <3>1. Drawing /\ FrameShell
      BY DEF Frame, Navigate, LoginClicked, LogoutClicked
    <3> QED
      BY <3>1, FrameShellTypes
  <2>5. ~(Hang \/ XClick \/ TaskbarClick \/ (\E c \in Commands : TrayClick(c)))
    BY DEF Hang, XClick, TaskbarClick, TrayClick, shell
  <2>6. ~((\E t \in Tasks : LoginStep(t) \/ LoginFails(t)) \/ ForcedLogout)
    BY DEF LoginStep, LoginSucceeds, LoginEnds, LoginFails, ForcedLogout, shell
  <2> QED
    BY <2>1, <2>2, <2>3, <2>4, <2>5, <2>6 DEF Next
<1> QED
  BY <1>1, <1>2, NextClosing, TypeCorrect, PTL DEF Spec, StaysInBackground

-----------------------------------------------------------------------------
(***************************************************************************)
(* "Quit": what QuitEnds needs to be true besides the fairness of the      *)
(* timer                                                                   *)
(***************************************************************************)

\* Whoever has chosen "Quit" has started the timer, whether a frame has seen the
\* command yet or not.
QuitIsArmed == Waits("Quit") \/ reallyQuit => timer

\* Nothing stops the timer but the end of the process.
QuitIsFinal == [][timer => timer' \/ proc' = "off"]_vars

\* A command that a frame leaves in the channel was there.
LEMMA FrameTakes ==
    ASSUME TypeOK, FrameShell
    PROVE  Waits("Quit")' \/ reallyQuit' => Waits("Quit") \/ reallyQuit
<1>1. CASE Command = "none"
  BY <1>1 DEF FrameShell, Waits
<1>2. CASE Command # "none"
  <2>1. commands # <<>> /\ commands \in Seq(Commands) /\ Command = commands[1]
    BY <1>2 DEF Command, TypeOK
  <2>2. commands' = Tail(commands)
    BY <1>2 DEF FrameShell
  <2>3. /\ Len(commands) \in Nat /\ Len(commands) # 0
        /\ DOMAIN commands = 1 .. Len(commands)
        /\ DOMAIN commands' = 1 .. Len(commands) - 1
        /\ \A i \in 1 .. Len(commands) - 1 : commands'[i] = commands[i + 1]
    BY <2>1, <2>2
  <2>4. Waits("Quit")' => Waits("Quit")
    <3> SUFFICES ASSUME NEW i \in DOMAIN commands', commands'[i] = "Quit"
                 PROVE  Waits("Quit")
      BY DEF Waits
    <3>1. i + 1 \in DOMAIN commands /\ commands[i + 1] = "Quit"
      BY <2>3
    <3> QED
      BY <3>1 DEF Waits
  <2>5. reallyQuit' => Waits("Quit") \/ reallyQuit
    <3>1. 1 \in DOMAIN commands
      BY <2>3
    <3> QED
      BY <2>1, <3>1 DEF FrameShell, Waits
  <2> QED
    BY <2>4, <2>5
<1> QED
  BY <1>1, <1>2

\* A click that makes "Quit" wait starts the timer.
LEMMA ClickArms ==
    ASSUME TypeOK, NEW c \in Commands, TrayClick(c), Waits("Quit")'
    PROVE  Waits("Quit") \/ timer'
<1>1. commands \in Seq(Commands) /\ commands' = Append(commands, c)
  BY DEF TrayClick, TypeOK
<1>2. PICK i \in DOMAIN commands' : commands'[i] = "Quit"
  BY DEF Waits
<1>3. CASE i = Len(commands) + 1
  <2>1. c = "Quit"
    BY <1>1, <1>2, <1>3
  <2> QED
    BY <2>1 DEF TrayClick
<1>4. CASE i # Len(commands) + 1
  <2>1. i \in DOMAIN commands /\ commands[i] = "Quit"
    BY <1>1, <1>2, <1>4
  <2> QED
    BY <2>1 DEF Waits
<1> QED
  BY <1>3, <1>4

\* Every step keeps a "Quit" armed, and a timer running.
LEMMA NextArmed ==
    TypeOK /\ QuitIsArmed /\ [Next]_vars => QuitIsArmed' /\ (timer => timer' \/ proc' = "off")
<1> SUFFICES ASSUME TypeOK, QuitIsArmed, [Next]_vars
             PROVE  QuitIsArmed' /\ (timer => timer' \/ proc' = "off")
  OBVIOUS
<1>1. CASE Closed \/ ForcedExit \/ Crash
  <2>1. Off
    BY <1>1 DEF Closed, ForcedExit, Crash
  <2>2. proc' = "off" /\ commands' = <<>> /\ reallyQuit' = FALSE
    BY <2>1 DEF Off
  <2>3. ~ Waits("Quit")'
    BY <2>2 DEF Waits
  <2> QED
    BY <2>2, <2>3 DEF QuitIsArmed
<1>2. CASE Frame \/ Navigate \/ LoginClicked \/ LogoutClicked
  <2>1. FrameShell
    BY <1>2 DEF Frame, Navigate, LoginClicked, LogoutClicked
  <2>2. timer' = timer
    BY <2>1 DEF FrameShell
  <2> QED
    BY <2>1, <2>2, FrameTakes DEF QuitIsArmed
<1>3. ASSUME NEW c \in Commands, TrayClick(c)
      PROVE  QuitIsArmed' /\ (timer => timer' \/ proc' = "off")
  <2>1. reallyQuit' = reallyQuit /\ (timer => timer')
    BY <1>3 DEF TrayClick
  <2> QED
    BY <1>3, <2>1, ClickArms DEF QuitIsArmed
<1>4. CASE \/ Start \/ Hang \/ XClick \/ TaskbarClick \/ ForcedLogout
           \/ \E t \in Tasks : LoginStep(t) \/ LoginFails(t)
           \/ UNCHANGED vars
  <2>1. UNCHANGED <<commands, reallyQuit, timer>>
    BY <1>4 DEF Start, Hang, XClick, TaskbarClick, ForcedLogout, LoginStep, LoginSucceeds,
                LoginEnds, LoginFails, vars, shell
  <2> QED
    BY <2>1 DEF QuitIsArmed, Waits
<1> QED
  BY <1>1, <1>2, <1>3, <1>4 DEF Next

\* "Quit" always has its timer, which nothing stops.
THEOREM QuitHasItsTimer == Spec => []QuitIsArmed /\ QuitIsFinal
<1>1. Init => QuitIsArmed
  BY DEF Init, QuitIsArmed, Waits
<1>2. TypeOK /\ QuitIsArmed /\ [Next]_vars => [timer => timer' \/ proc' = "off"]_vars
  BY NextArmed
<1> QED
  BY <1>1, <1>2, NextArmed, TypeCorrect, PTL DEF Spec, QuitIsFinal

-----------------------------------------------------------------------------
(***************************************************************************)
(* The window: what ShowIsServed needs besides the frames                  *)
(***************************************************************************)

\* Commands only wait while there is an icon, or for a process that is closing.
CommandsHaveTray == commands # <<>> => tray \/ proc = "closing"

\* The program puts the window away only under an icon that stays there, and the
\* icon only goes when the process does: what the program puts away can be brought
\* back.
PutAwayWithinReach ==
    [][/\ window = "shown" /\ window' = "minimized" /\ proc' # "off" => tray' \/ TaskbarClick
       /\ proc = "running" /\ tray => tray' \/ proc' # "running"]_vars

\* A process that runs stops running by "Quit", by a close request without an icon,
\* or at once; whatever other commands and requests a frame finds.
ClosesForAReason ==
    [][proc = "running" /\ proc' = "closing" => timer \/ (xClicked /\ ~tray)]_vars

\* A frame minimizes the window under an icon only, and leaves the icon where it is
\* or ends the process.
LEMMA FrameReachable ==
    ASSUME TypeOK, Drawing, FrameShell
    PROVE  /\ window = "shown" /\ window' = "minimized" => tray'
           /\ tray => tray' \/ proc' # "running"
<1>1. window = "shown" /\ window' = "minimized" => Intercedes
  BY DEF FrameShell
<1>2. Intercedes => tray /\ Command # "Quit"
  BY DEF Intercedes
<1>3. tray /\ Command # "Quit" => tray'
  BY DEF FrameShell, TrayStays, TypeOK
<1>4. Command = "Quit" => proc' = "closing"
  BY DEF FrameShell
<1> QED
  BY <1>1, <1>2, <1>3, <1>4

\* Every step leaves what it puts away within reach.
LEMMA NextReachable ==
    ASSUME TypeOK, Next
    PROVE  /\ window = "shown" /\ window' = "minimized" /\ proc' # "off" => tray' \/ TaskbarClick
           /\ proc = "running" /\ tray => tray' \/ proc' # "running"
<1>1. CASE Start
  BY <1>1 DEF Start
<1>2. CASE Closed \/ ForcedExit \/ Crash
  BY <1>2 DEF Closed, ForcedExit, Crash, Off
<1>3. CASE Frame \/ Navigate \/ LoginClicked \/ LogoutClicked
  <2>1. Drawing /\ FrameShell
    BY <1>3 DEF Frame, Navigate, LoginClicked, LogoutClicked
  <2> QED
    BY <2>1, FrameReachable
<1>4. CASE TaskbarClick
  BY <1>4 DEF TaskbarClick
<1>5. CASE \/ Hang \/ XClick \/ ForcedLogout
           \/ \E c \in Commands : TrayClick(c)
           \/ \E t \in Tasks : LoginStep(t) \/ LoginFails(t)
  <2>1. UNCHANGED <<proc, tray, window>>
    BY <1>5 DEF Hang, XClick, TrayClick, ForcedLogout, LoginStep, LoginSucceeds, LoginEnds,
                LoginFails, shell
  <2> QED
    BY <2>1
<1> QED
  BY <1>1, <1>2, <1>3, <1>4, <1>5 DEF Next

\* What the program puts away can be brought back.
THEOREM WindowIsNeverLost == Spec => PutAwayWithinReach
<1>1. TypeOK /\ [Next]_vars =>
        [/\ window = "shown" /\ window' = "minimized" /\ proc' # "off" => tray' \/ TaskbarClick
         /\ proc = "running" /\ tray => tray' \/ proc' # "running"]_vars
  BY NextReachable
<1> QED
  BY <1>1, TypeCorrect, PTL DEF Spec, PutAwayWithinReach

\* Every step keeps the icon of waiting commands.
LEMMA NextHasTray == TypeOK /\ CommandsHaveTray /\ [Next]_vars => CommandsHaveTray'
<1> SUFFICES ASSUME TypeOK, CommandsHaveTray, [Next]_vars PROVE CommandsHaveTray'
  OBVIOUS
<1>1. CASE Start
  BY <1>1 DEF Start, CommandsHaveTray, TypeOK
<1>2. CASE Closed \/ ForcedExit \/ Crash
  BY <1>2 DEF Closed, ForcedExit, Crash, Off, CommandsHaveTray
<1>3. CASE Frame \/ Navigate \/ LoginClicked \/ LogoutClicked
  <2>1. Drawing /\ FrameShell
    BY <1>3 DEF Frame, Navigate, LoginClicked, LogoutClicked
  <2>2. proc = "running" /\ (tray => tray' \/ proc' = "closing")
    BY <2>1, FrameReachable, FrameShellTypes DEF Drawing
  <2>3. commands = <<>> => commands' = <<>>
    BY <2>1 DEF FrameShell, Command
  <2> QED
    BY <2>2, <2>3 DEF CommandsHaveTray
<1>4. ASSUME NEW c \in Commands, TrayClick(c) PROVE CommandsHaveTray'
  BY <1>4 DEF TrayClick, CommandsHaveTray
<1>5. CASE \/ Hang \/ XClick \/ TaskbarClick \/ ForcedLogout
           \/ \E t \in Tasks : LoginStep(t) \/ LoginFails(t)
           \/ UNCHANGED vars
  <2>1. UNCHANGED <<proc, tray, commands>>
    BY <1>5 DEF Hang, XClick, TaskbarClick, ForcedLogout, LoginStep, LoginSucceeds, LoginEnds,
                LoginFails, vars, shell
  <2> QED
    BY <2>1 DEF CommandsHaveTray
<1> QED
  BY <1>1, <1>2, <1>3, <1>4, <1>5 DEF Next

\* The process begins to close for a reason only.
THEOREM NeverClosesByItself == Spec => ClosesForAReason
<1>1. TypeOK /\ QuitIsArmed /\ [Next]_vars =>
          [proc = "running" /\ proc' = "closing" => timer \/ (xClicked /\ ~tray)]_vars
  <2> SUFFICES ASSUME TypeOK, QuitIsArmed, Next, proc = "running", proc' = "closing"
               PROVE  timer \/ (xClicked /\ ~tray)
    OBVIOUS
  <2>1. CASE Frame \/ Navigate \/ LoginClicked \/ LogoutClicked
    <3>1. FrameShell
      BY <2>1 DEF Frame, Navigate, LoginClicked, LogoutClicked
    <3>2. Command = "Quit" \/ (xClicked /\ ~Intercedes)
      BY <3>1 DEF FrameShell
    <3>3. Command = "Quit" \/ reallyQuit => timer
      <4>1. Command = "Quit" => commands # <<>> /\ commands[1] = "Quit"
        BY DEF Command
      <4>2. commands # <<>> => 1 \in DOMAIN commands
        BY DEF TypeOK
      <4> QED
        BY <4>1, <4>2 DEF QuitIsArmed, Waits
    <3> QED
      BY <3>2, <3>3 DEF Intercedes
  <2>2. ~(Start \/ Closed \/ ForcedExit \/ Crash)
    BY DEF Start, Closed, ForcedExit, Crash, Off
  <2>3. ~(Hang \/ XClick \/ TaskbarClick \/ ForcedLogout \/ (\E c \in Commands : TrayClick(c)))
    BY DEF Hang, XClick, TaskbarClick, ForcedLogout, TrayClick, shell
  <2>4. ~(\E t \in Tasks : LoginStep(t) \/ LoginFails(t))
    BY DEF LoginStep, LoginSucceeds, LoginEnds, LoginFails, shell
  <2> QED
    BY <2>1, <2>2, <2>3, <2>4 DEF Next
<1> QED
  BY <1>1, QuitHasItsTimer, TypeCorrect, PTL DEF Spec, ClosesForAReason

-----------------------------------------------------------------------------
(***************************************************************************)
(* "Open": what ShowIsServed needs besides the fairness of Frame           *)
(***************************************************************************)

\* The frames, with and without a click.
Drawn == Frame \/ Navigate \/ LoginClicked \/ LogoutClicked

\* While the process runs, an "Open" that waits comes one place nearer with every
\* frame, and no other step moves it.  The frame that takes it leaves the window
\* shown, unless it finds a close request as well: then minimized, and the command
\* is used up.  Only the end of the process drops it.
OpenGetsNearer ==
    [][\A i \in DOMAIN commands :
           proc = "running" /\ commands[i] = "Show" =>
               \/ proc' = "off"
               \/ IF ~Drawn THEN commands'[i] = "Show"
                  ELSE IF i > 1 THEN commands'[i - 1] = "Show"
                  ELSE window' = IF xClicked THEN "minimized" ELSE "shown"]_vars

\* A frame takes the first command; if this is "Open", the window is shown or a
\* close request minimizes it.
LEMMA FrameMovesUp ==
    ASSUME TypeOK, CommandsHaveTray, Drawing, FrameShell,
           NEW i \in DOMAIN commands, commands[i] = "Show"
    PROVE  IF i > 1 THEN commands'[i - 1] = "Show"
           ELSE window' = IF xClicked THEN "minimized" ELSE "shown"
<1>1. /\ commands \in Seq(Commands) /\ commands # <<>>
      /\ Len(commands) \in Nat /\ i \in 1 .. Len(commands)
  BY DEF TypeOK
<1>2. tray /\ ~reallyQuit
  BY <1>1 DEF CommandsHaveTray, Drawing, TypeOK
<1>3. Command = commands[1] /\ Command \in Commands
  BY <1>1, <1>2 DEF Command
<1>4. commands' = Tail(commands)
  BY <1>3 DEF FrameShell, Commands
<1>5. CASE i = 1
  <2>1. Command = "Show"
    BY <1>3, <1>5
  <2>2. Intercedes <=> xClicked
    BY <1>2, <2>1 DEF Intercedes
  <2>3. window' = IF xClicked THEN "minimized" ELSE "shown"
    BY <2>1, <2>2 DEF FrameShell
  <2> QED
    BY <1>5, <2>3
<1>6. CASE i # 1
  <2>1. i \in Nat /\ i > 1 /\ i - 1 \in 1 .. Len(commands) - 1
    BY <1>1, <1>6
  <2>2. commands'[i - 1] = commands[i]
    BY <1>1, <1>4, <2>1
  <2> QED
    BY <2>1, <2>2
<1> QED
  BY <1>5, <1>6

\* Every step brings an "Open" nearer, or leaves it where it is.
LEMMA NextGetsNearer ==
    ASSUME TypeOK, CommandsHaveTray, Next, proc = "running",
           NEW i \in DOMAIN commands, commands[i] = "Show"
    PROVE  \/ proc' = "off"
           \/ IF ~Drawn THEN commands'[i] = "Show"
              ELSE IF i > 1 THEN commands'[i - 1] = "Show"
              ELSE window' = IF xClicked THEN "minimized" ELSE "shown"
<1>1. CASE Drawn
  <2>1. Drawing /\ FrameShell
    BY <1>1 DEF Drawn, Frame, Navigate, LoginClicked, LogoutClicked
  <2> QED
    BY <1>1, <2>1, FrameMovesUp
<1>2. CASE ~Drawn /\ (Closed \/ ForcedExit \/ Crash)
  BY <1>2 DEF Closed, ForcedExit, Crash, Off
<1>3. ASSUME ~Drawn, NEW c \in Commands, TrayClick(c) PROVE commands'[i] = "Show"
  <2>1. commands \in Seq(Commands) /\ commands' = Append(commands, c)
    BY <1>3 DEF TrayClick, TypeOK
  <2> QED
    BY <2>1
<1>4. CASE ~Drawn /\ (\/ Hang \/ XClick \/ TaskbarClick \/ ForcedLogout
                      \/ \E t \in Tasks : LoginStep(t) \/ LoginFails(t))
  <2>1. commands' = commands
    BY <1>4 DEF Hang, XClick, TaskbarClick, ForcedLogout, LoginStep, LoginSucceeds, LoginEnds,
                LoginFails, shell
  <2> QED
    BY <1>4, <2>1
<1>5. ~Start
  BY DEF Start
<1> QED
  BY <1>1, <1>2, <1>3, <1>4, <1>5 DEF Next, Drawn

\* "Open" is not lost, not overtaken, and undone by nothing but a close request the
\* same frame finds.
THEOREM OpenIsNotLost == Spec => OpenGetsNearer
<1>1. Init => CommandsHaveTray
  BY DEF Init, CommandsHaveTray
<1>2. TypeOK /\ CommandsHaveTray /\ [Next]_vars =>
        [\A i \in DOMAIN commands :
             proc = "running" /\ commands[i] = "Show" =>
                 \/ proc' = "off"
                 \/ IF ~Drawn THEN commands'[i] = "Show"
                    ELSE IF i > 1 THEN commands'[i - 1] = "Show"
                    ELSE window' = IF xClicked THEN "minimized" ELSE "shown"]_vars
  BY NextGetsNearer
<1> QED
  BY <1>1, <1>2, NextHasTray, TypeCorrect, PTL DEF Spec, OpenGetsNearer

-----------------------------------------------------------------------------
(***************************************************************************)
(* The login view                                                          *)
(***************************************************************************)

\* While the process runs, only the logout of the account tab leads back to the
\* login view: a session that ends otherwise leaves the route as it is (run
\* lifecycle_forced), and no frame throws a user out.
OnlyLogoutLeadsBack ==
    [][route # "Login" /\ route' = "Login" => LogoutClicked \/ proc' = "off"]_vars

\* The login view is left by those only who are logged in.
OnlyUsersEnter == [][route = "Login" /\ route' # "Login" => loggedIn]_vars

\* Where a frame may lead from where it is.
LEMMA WaysOfAFrame ==
    ASSUME TypeOK
    PROVE  /\ route # "Login" => Landed # "Login"
           /\ Landed # "Login" => "Login" \notin Links(Landed)
           /\ route = "Login" /\ ~loggedIn => Landed = "Login" /\ Links(Landed) = {}
<1>1. route # "Login" => Landed # "Login"
  BY DEF Landed, Opened
<1>2. Landed # "Login" => "Login" \notin Links(Landed)
  <2>1. PICK r \in Routes \ {"UpdateNotice", "Disabled"} : r = Landed
    BY RouteTypes
  <2>2. r # "Login" => "Login" \notin Links(r)
    BY <2>1 DEF Links, Routes
  <2> QED
    BY <2>1, <2>2
<1>3. route = "Login" /\ ~loggedIn => Landed = "Login"
  BY DEF Landed, Opened
<1> QED
  BY <1>1, <1>2, <1>3 DEF Links

\* The ways into the login view and out of it.
THEOREM LoginViewHasItsWays == Spec => OnlyLogoutLeadsBack /\ OnlyUsersEnter
<1>1. TypeOK /\ [Next]_vars =>
          [/\ route # "Login" /\ route' = "Login" => LogoutClicked \/ proc' = "off"
           /\ route = "Login" /\ route' # "Login" => loggedIn]_vars
  <2> SUFFICES ASSUME TypeOK, Next
               PROVE  /\ route # "Login" /\ route' = "Login" => LogoutClicked \/ proc' = "off"
                      /\ route = "Login" /\ route' # "Login" => loggedIn
    OBVIOUS
  <2>1. CASE Frame \/ LoginClicked
    <3>1. route' = Landed
      BY <2>1 DEF Frame, LoginClicked
    <3> QED
      BY <3>1, WaysOfAFrame
  <2>2. CASE Navigate
    <3>1. route' \in Links(Landed)
      BY <2>2 DEF Navigate
    <3> QED
      BY <3>1, WaysOfAFrame
  <2>3. CASE LogoutClicked
    BY <2>3 DEF LogoutClicked
  <2>4. CASE Closed \/ ForcedExit \/ Crash
    BY <2>4 DEF Closed, ForcedExit, Crash, Off
  <2>5. CASE \/ Start \/ Hang \/ XClick \/ TaskbarClick \/ ForcedLogout
             \/ \E c \in Commands : TrayClick(c)
             \/ \E t \in Tasks : LoginStep(t) \/ LoginFails(t)
    <3>1. route' = route
      BY <2>5 DEF Start, Hang, XClick, TaskbarClick, ForcedLogout, TrayClick, LoginStep,
                  LoginSucceeds, LoginEnds, LoginFails
    <3> QED
      BY <3>1
  <2> QED
    BY <2>1, <2>2, <2>3, <2>4, <2>5 DEF Next
<1> QED
  BY <1>1, TypeCorrect, PTL DEF Spec, OnlyLogoutLeadsBack, OnlyUsersEnter

=============================================================================
