----------------------------- MODULE MCRelayHub -----------------------------
(***************************************************************************)
(* Instances of RelayHub for TLC.                                          *)
(***************************************************************************)
EXTENDS RelayHub, TLC

\* Only transport events: the protocol without its timers.
EventsSpec == Init /\ [][Events]_vars

\* The next event does not read what the last one queued, and is judged on
\* every transition: states that differ in it alone are one.
View == <<Flushed, sweep>>

Symmetry == Permutations(Conns) \cup Permutations(Codes)

=============================================================================
