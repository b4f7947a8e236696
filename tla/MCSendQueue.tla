---------------------------- MODULE MCSendQueue ----------------------------
(***************************************************************************)
(* Instances of SendQueue: one application thread beside the connection's. *)
(* A second sender waits for the session's lock and adds no state.         *)
(***************************************************************************)
EXTENDS SendQueue

=============================================================================
