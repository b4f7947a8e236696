------------------------- MODULE MCThreadedAcceptor -------------------------
(***************************************************************************)
(* Instances of ThreadedAcceptor for TLC.                                  *)
(***************************************************************************)
EXTENDS ThreadedAcceptor

\* Two ports that race for the last pending connection; and one port that is stopped
\* and started again, with one descriptor for the connections.
Both ==
  {[ports |-> 2, callers |-> 1, starts |-> 1, made |-> 4, fds |-> 4],
   [ports |-> 1, callers |-> 2, starts |-> 2, made |-> 4, fds |-> 2]}

=============================================================================
