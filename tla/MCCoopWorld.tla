---------------------------- MODULE MCCoopWorld ----------------------------
(***************************************************************************)
(* CoopWorld with three sockets, for TLC.                                  *)
(***************************************************************************)
EXTENDS CoopWorld

MCConns == 1..3

=============================================================================
