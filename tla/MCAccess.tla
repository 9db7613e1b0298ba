------------------------------- MODULE MCAccess -------------------------------
(***************************************************************************)
(* Access on a small instance.                                             *)
(***************************************************************************)
EXTENDS Access, TLC

CONSTANTS r1, r2
===============================================================================
