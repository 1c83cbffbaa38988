---------------------------- MODULE MCSessionManager ----------------------------
(* A finite instance of SessionManager: two threads, sessions of two       *)
(* servers, room for one session on each.                                  *)
EXTENDS SessionManager

CONSTANTS bank, shop

MCOwners == << bank, shop >>
=============================================================================
