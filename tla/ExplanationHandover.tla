-------------------------- MODULE ExplanationHandover --------------------------
(***************************************************************************)
(* What the explanation queue promises, without rows, requests or retries: *)
(* an explanation that was written is handed over at least once or refused *)
(* for good before this PC forgets it, and nothing is handed over that was *)
(* not written here.  It promises neither that an explanation arrives only *)
(* once nor in whose name.                                                 *)
(***************************************************************************)
CONSTANTS
    Ids,            \* the explanations
    Employees

VARIABLES
    written,        \* written on this PC
    stored,         \* what the server has: pairs of an explanation and a name
    refused,        \* refused by the server
    forgotten       \* no longer kept by this PC

vars == <<written, stored, refused, forgotten>>

Settled(i) == i \in refused \/ \E e \in Employees : <<i, e>> \in stored

Init == written = {} /\ stored = {} /\ refused = {} /\ forgotten = {}

Write(i) ==
    /\ i \notin written
    /\ written' = written \cup {i}
    /\ UNCHANGED <<stored, refused, forgotten>>

HandOver(i, e) ==
    /\ i \in written
    /\ stored' = stored \cup {<<i, e>>}
    /\ UNCHANGED <<written, refused, forgotten>>

Refuse(i) ==
    /\ i \in written
    /\ refused' = refused \cup {i}
    /\ UNCHANGED <<written, stored, forgotten>>

Forget(i) ==
    /\ i \in written
    /\ Settled(i)
    /\ forgotten' = forgotten \cup {i}
    /\ UNCHANGED <<written, stored, refused>>

Next ==
    \E i \in Ids :
        \/ Write(i) \/ Refuse(i) \/ Forget(i)
        \/ \E e \in Employees : HandOver(i, e)

Spec == Init /\ [][Next]_vars

=============================================================================
