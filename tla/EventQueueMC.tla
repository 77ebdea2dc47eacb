---------------------------- MODULE EventQueueMC ----------------------------
(***************************************************************************)
(* Small instances of EventQueue for TLC: what the server's CHECK          *)
(* constraint refuses in each of them.                                     *)
(***************************************************************************)
EXTENDS EventQueue

\* One row that is always at the head of the queue, as the HEARTBEAT rows of
\* an older agent are for a server that dropped the type.
RefusesStart == {AppStarted}

RefusesQuit == {AppStopped}

=============================================================================
