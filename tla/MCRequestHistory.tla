-------------------------- MODULE MCRequestHistory --------------------------
(***************************************************************************)
(* A small instance of RequestHistory: users, calls and their results.     *)
(***************************************************************************)
EXTENDS RequestHistory

Kind(role, text, calls) == [role |-> role, text |-> text, calls |-> calls]
MCKinds == {Kind("user", TRUE, FALSE), Kind("assistant", FALSE, TRUE), Kind("tool", TRUE, FALSE)}
=============================================================================
