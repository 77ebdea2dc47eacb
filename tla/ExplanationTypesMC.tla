-------------------------- MODULE ExplanationTypesMC --------------------------
(***************************************************************************)
(* Values for the constants of ExplanationTypes: an administrator and an   *)
(* employee of two companies, a type of the company's own and a protected  *)
(* one.                                                                    *)
(***************************************************************************)
EXTENDS ExplanationTypes

CONSTANTS u1, u2, own, other

EachTheirOwn == [e \in {u1, u2} |-> e]
SeedList == [t \in {own, other} |-> IF t = other THEN "plain" ELSE "off"]

=============================================================================
