------------------------------ MODULE MCAddShare ------------------------------
(* Instance of AddShare for TLC: one session.                               *)
EXTENDS AddShare
=============================================================================
