-------------------------- MODULE MCSaveCoordinator --------------------------
(***************************************************************************)
(* SaveCoordinator for TLC: a run document is worth its terminal state and *)
(* the progress it holds.                                                  *)
(***************************************************************************)
EXTENDS SaveCoordinator

MCBodies == [terminal: Terminals, progress: 0..MaxProgress]

=============================================================================
