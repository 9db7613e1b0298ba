------------------------------ MODULE MCLiveFeed ------------------------------
(***************************************************************************)
(* LiveFeed on a small instance: two sockets of one user.                  *)
(***************************************************************************)
EXTENDS LiveFeed, TLC

CONSTANTS u1, s1, s2, c1

OneUser == [s \in Sockets |-> u1]
===============================================================================
