--------------------------- MODULE MCCoopSession ---------------------------
(***************************************************************************)
(* CoopSession with numbered connections, for TLC.                         *)
(***************************************************************************)
EXTENDS CoopSession

CONSTANTS NumConns

MCConns == 1..NumConns

=============================================================================
