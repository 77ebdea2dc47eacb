---------------------------- MODULE PolicyEditorMC ----------------------------
(***************************************************************************)
(* The policies of a fresh start for the instance that TLC checks.         *)
(***************************************************************************)
EXTENDS PolicyEditor

AllZero == [f \in Fields |-> 0]
ZeroForAll == [u \in Employees |-> AllZero]

CONSTANT u1

\* The others have a row of their own.
OnlyFirst == {{u1} \X Fields}

=============================================================================
