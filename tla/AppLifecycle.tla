------------------------------ MODULE AppLifecycle ------------------------------
(***************************************************************************)
(* The process and its window: start and end (main.rs), the frames of the  *)
(* UI thread with their routes (ui/mod.rs and the views), the tray menu    *)
(* and its polling thread (ui/tray.rs), the two login tasks the UI starts, *)
(* and the logouts it or the user-info loop asks for.                      *)
(*                                                                         *)
(* A frame is one step: it reads the session and writes the route, and     *)
(* other threads only touch the session.  Whose session it is, and what    *)
(* the views show, is in Session, ExplanationList and PolicyEditor.        *)
(***************************************************************************)
EXTENDS Naturals, Sequences

CONSTANTS
    MaxCommands,    \* bound: tray commands waiting for a frame
    MaxStarts,      \* bound: starts of the process
    MaxFaults       \* bound: no tray icon, a UI thread that hangs, a crash, a
                    \* logout or a login that fails

ASSUME BoundsAssumption == MaxCommands \in Nat /\ MaxStarts \in Nat /\ MaxFaults \in Nat

VARIABLES
    proc,       \* "off", "running", or "closing": the window has been told to close
    tray,       \* PinpleApp.tray is there
    commands,   \* the channel of the tray thread
    timer,      \* the thread that ends the process 1.5 s after "Quit" runs
    reallyQuit, \* PinpleApp.really_quit
    window,     \* "shown" or "minimized"
    xClicked,   \* a close request the next frame will see
    route,      \* PinpleApp.route
    loggedIn,   \* AppState.session
    login,      \* the login tasks; the button is busy while the manual one runs
    hung,       \* the UI thread waits for something that does not come
    starts, faults

shell == <<tray, commands, timer, reallyQuit, window, xClicked>>
vars == <<proc, shell, route, loggedIn, login, hung, starts, faults>>

Commands == {"Show", "OpenExplanation", "Quit"}
Routes == {"Login", "Status", "List", "Input", "Settings", "UpdateNotice", "Disabled"}
Tasks == {"manual", "auto"}

Fail == faults > 0 /\ faults' = faults - 1

Off ==
    /\ proc' = "off"
    /\ tray' = FALSE
    /\ commands' = <<>>
    /\ timer' = FALSE
    /\ reallyQuit' = FALSE
    /\ window' = "minimized"
    /\ xClicked' = FALSE
    /\ route' = "Login"
    /\ loggedIn' = FALSE
    /\ login' = [t \in Tasks |-> "idle"]
    /\ hung' = FALSE

Init ==
    /\ proc = "off"
    /\ tray = FALSE
    /\ commands = <<>>
    /\ timer = FALSE
    /\ reallyQuit = FALSE
    /\ window = "minimized"
    /\ xClicked = FALSE
    /\ route = "Login"
    /\ loggedIn = FALSE
    /\ login = [t \in Tasks |-> "idle"]
    /\ hung = FALSE
    /\ starts = MaxStarts
    /\ faults = MaxFaults

(***************************************************************************)
(* The process                                                             *)
(***************************************************************************)

\* main and PinpleApp::new; nobody is logged in yet, so the automatic login is
\* tried.  While a process runs, a second one ends before it does anything.
Start ==
    /\ proc = "off"
    /\ starts > 0
    /\ starts' = starts - 1
    /\ proc' = "running"
    /\ window' = "shown"
    /\ login' = [login EXCEPT !["auto"] = "auth"]
    /\ \/ tray' = TRUE /\ UNCHANGED faults
       \/ tray' = FALSE /\ Fail
    /\ UNCHANGED <<commands, timer, reallyQuit, xClicked, route, loggedIn, hung>>

\* run_native and then main return.
Closed ==
    /\ proc = "closing"
    /\ ~hung
    /\ Off
    /\ UNCHANGED <<starts, faults>>

ForcedExit ==
    /\ timer
    /\ Off
    /\ UNCHANGED <<starts, faults>>

Crash ==
    /\ proc # "off"
    /\ Fail
    /\ Off
    /\ UNCHANGED starts

Hang ==
    /\ proc # "off"
    /\ ~hung
    /\ Fail
    /\ hung' = TRUE
    /\ UNCHANGED <<proc, shell, route, loggedIn, login, starts>>

(***************************************************************************)
(* The tray                                                                *)
(***************************************************************************)

\* Mutant: "Quit" is left to the UI thread.
TrayClickNoTimer(c) ==
    /\ tray
    /\ Len(commands) < MaxCommands
    /\ commands' = Append(commands, c)
    /\ UNCHANGED <<proc, tray, timer, reallyQuit, window, xClicked, route, loggedIn, login, hung,
                   starts, faults>>

\* A menu item or the icon is clicked, and the tray thread passes it on.
TrayClick(c) ==
    /\ tray
    /\ Len(commands) < MaxCommands
    /\ commands' = Append(commands, c)
    /\ timer' = (timer \/ c = "Quit")
    /\ UNCHANGED <<proc, tray, reallyQuit, window, xClicked, route, loggedIn, login, hung,
                   starts, faults>>

\* The cross of the window, or "Close" of its taskbar entry: that of a minimized
\* window, too.
XClick ==
    /\ proc = "running"
    /\ ~xClicked
    /\ xClicked' = TRUE
    /\ UNCHANGED <<proc, tray, commands, timer, reallyQuit, window, route, loggedIn, login, hung,
                   starts, faults>>

\* The user minimizes or restores the window past the program.
TaskbarClick ==
    /\ proc = "running"
    /\ window' \in {"shown", "minimized"} \ {window}
    /\ UNCHANGED <<proc, tray, commands, timer, reallyQuit, xClicked, route, loggedIn, login, hung,
                   starts, faults>>

(***************************************************************************)
(* A frame                                                                 *)
(***************************************************************************)

\* One command in a frame, even if more are waiting.
Command == IF tray /\ commands # <<>> THEN Head(commands) ELSE "none"

\* Mutant: the close request is always granted.
IntercedesNever == FALSE

\* The program minimizes the window only while the tray can bring it back.
Intercedes == xClicked /\ tray /\ Command # "Quit" /\ ~reallyQuit

\* The route a frame draws.
Opened == IF Command = "OpenExplanation" /\ loggedIn THEN "List" ELSE route

\* Mutant: the login view is left by those who log in there only.
LandedManual == IF Opened = "Login" /\ loggedIn /\ login["manual"] # "idle" THEN "Status" ELSE Opened

Landed == IF Opened = "Login" /\ loggedIn THEN "Status" ELSE Opened

\* Where the buttons of a view lead, apart from those that log out.  Nothing
\* leads to UpdateNotice and Disabled.
Links(r) ==
    CASE r = "Login" -> {}
      [] r = "Status" -> {"Settings", "List"}
      [] r = "List" -> {"Status"} \cup (IF loggedIn THEN {"Input"} ELSE {})
      [] r = "Input" -> {"List"}
      [] r = "Settings" -> {"Status"}
      [] r = "UpdateNotice" -> {"Status"}
      [] r = "Disabled" -> IF loggedIn THEN {"Settings"} ELSE {"Login"}

\* Mutant: the window is hidden and not minimized: frames stop.
FrameWhenShown == window = "shown"

FrameRuns == TRUE

\* Mutant: the icon is left to the end of the process.
TrayKept == tray

\* "Quit" drops the icon.
TrayStays == tray /\ Command # "Quit"

\* The tray command, the close request, and what both do to the window.
FrameShell ==
    /\ commands' = IF Command = "none" THEN commands ELSE Tail(commands)
    /\ tray' = TrayStays
    /\ reallyQuit' = (reallyQuit \/ Command = "Quit")
    /\ xClicked' = FALSE
    /\ proc' = IF Command = "Quit" \/ (xClicked /\ ~Intercedes) THEN "closing" ELSE proc
    /\ window' = IF Intercedes THEN "minimized"
                 ELSE IF Command \in {"Show", "OpenExplanation"} THEN "shown" ELSE window
    /\ UNCHANGED timer

Drawing == proc = "running" /\ ~hung /\ FrameRuns

\* A frame without a click.
Frame ==
    /\ Drawing
    /\ FrameShell
    /\ route' = Landed
    /\ UNCHANGED <<loggedIn, login, hung, starts, faults>>

Navigate ==
    /\ Drawing
    /\ window = "shown"
    /\ FrameShell
    /\ route' \in Links(Landed)
    /\ UNCHANGED <<loggedIn, login, hung, starts, faults>>

\* The login button: disabled while its own login runs, not while the automatic
\* one does.
LoginClicked ==
    /\ Drawing
    /\ window = "shown"
    /\ Landed = "Login"
    /\ login["manual"] = "idle"
    /\ FrameShell
    /\ login' = [login EXCEPT !["manual"] = "auth"]
    /\ route' = Landed
    /\ UNCHANGED <<loggedIn, hung, starts, faults>>

\* The logout of the account tab.  If it fails the session stays, and the route
\* changes all the same.
LogoutClicked ==
    /\ Drawing
    /\ window = "shown"
    /\ Landed \in {"Settings", "Disabled"}
    /\ FrameShell
    /\ route' = "Login"
    /\ \/ loggedIn' = FALSE /\ UNCHANGED faults
       \/ Fail /\ UNCHANGED loggedIn
    /\ UNCHANGED <<login, hung, starts>>

(***************************************************************************)
(* The session, from other threads                                         *)
(***************************************************************************)

LoginSucceeds(t) ==
    /\ login[t] = "auth"
    /\ loggedIn' = TRUE
    /\ login' = [login EXCEPT ![t] = "loads"]
    /\ UNCHANGED <<proc, shell, route, hung, starts, faults>>

\* What a login loads after the session is there, to the end of its task.
LoginEnds(t) ==
    /\ login[t] = "loads"
    /\ login' = [login EXCEPT ![t] = "idle"]
    /\ UNCHANGED <<proc, shell, route, loggedIn, hung, starts, faults>>

\* An automatic login that has nothing to log in with is no fault.
LoginFails(t) ==
    /\ login[t] = "auth"
    /\ login' = [login EXCEPT ![t] = "idle"]
    /\ IF t = "auto" THEN UNCHANGED faults ELSE Fail
    /\ UNCHANGED <<proc, shell, route, loggedIn, hung, starts>>

\* force_logout in an answer to the user-info loop.
ForcedLogout ==
    /\ loggedIn
    /\ loggedIn' = FALSE
    /\ UNCHANGED <<proc, shell, route, login, hung, starts, faults>>

LoginStep(t) == LoginSucceeds(t) \/ LoginEnds(t)

Next ==
    \/ Start \/ Closed \/ ForcedExit \/ Crash \/ Hang
    \/ \E c \in Commands : TrayClick(c)
    \/ XClick \/ TaskbarClick
    \/ Frame \/ Navigate \/ LoginClicked \/ LogoutClicked
    \/ \E t \in Tasks : LoginStep(t) \/ LoginFails(t)
    \/ ForcedLogout

Spec == Init /\ [][Next]_vars

\* A frame is drawn every second, the runtime polls its tasks, the timer fires
\* and main returns.  Users, and trouble, have no fairness.
Fairness ==
    /\ WF_vars(Frame)
    /\ WF_vars(Closed)
    /\ WF_vars(ForcedExit)
    /\ \A t \in Tasks : WF_vars(LoginStep(t))

FairSpec == Spec /\ Fairness

-----------------------------------------------------------------------------
(***************************************************************************)
(* Properties                                                              *)
(***************************************************************************)

Waits(c) == \E i \in DOMAIN commands : commands[i] = c

\* Every variable has its type; the two views nothing leads to are never drawn, a
\* process that is quitting has no icon to be clicked again, and one that is off
\* has left nothing behind in memory.
TypeOK ==
    /\ proc \in {"off", "running", "closing"}
    /\ tray \in BOOLEAN
    /\ commands \in Seq(Commands)
    /\ timer \in BOOLEAN
    /\ reallyQuit \in BOOLEAN
    /\ window \in {"shown", "minimized"}
    /\ xClicked \in BOOLEAN
    /\ route \in Routes \ {"UpdateNotice", "Disabled"}
    /\ loggedIn \in BOOLEAN
    /\ login \in [Tasks -> {"idle", "auth", "loads"}]
    /\ hung \in BOOLEAN
    /\ starts \in Nat
    /\ faults \in Nat
    /\ reallyQuit => ~tray /\ proc = "closing"
    /\ proc = "off" => ~tray /\ ~timer /\ ~loggedIn /\ \A t \in Tasks : login[t] = "idle"

\* With a tray icon, closing the window never ends the recording: the process
\* goes away only after "Quit" or a crash.
StaysInBackground ==
    [][proc # "off" /\ proc' = "off" /\ ~Crash => timer \/ ~tray]_vars

\* "Quit" ends the process even if the UI thread hangs, other commands wait
\* before it, or the close request of the window comes in between.
QuitEnds == Waits("Quit") ~> proc = "off"

\* "Open" brings the window back, however often it was closed meanwhile and
\* whatever waits before it, as long as the UI thread lives, nobody quits, and
\* nobody asks to close the window again before it is back: a frame that finds
\* both commands minimizes last.
ShowIsServed ==
    Waits("Show") ~> (window = "shown" \/ xClicked \/ hung \/ proc # "running")

\* Who has been logged in leaves the login view, whichever of two logins did it
\* and even if it was a logout that failed which led there.
LoginViewIsLeft ==
    (loggedIn /\ route = "Login") ~> (route # "Login" \/ ~loggedIn \/ hung \/ proc # "running")

\* "force_logout = true: clear the local session at once and switch to the login
\* view" (docs/api.md): who is not logged in is led to the login view.
LoggedOutSeesLogin ==
    (proc = "running" /\ ~loggedIn) ~> (route = "Login" \/ loggedIn \/ hung \/ proc # "running")

=============================================================================
