--------------------------- MODULE MCSessionPair ---------------------------
(***************************************************************************)
(* Instances of SessionPair for TLC.                                       *)
(***************************************************************************)
EXTENDS SessionPair

BaseConfig ==
  [initiate |-> FALSE, resetOnLogon |-> FALSE, resetOnLogout |-> FALSE,
   resetOnDisconnect |-> FALSE, persist |-> TRUE, nextExpected |-> FALSE,
   redundant |-> FALSE, threaded |-> FALSE, logonTimeout |-> 2, logoutTimeout |-> 2]

Initiator(c) == [c EXCEPT !.initiate = TRUE]
NextExpected == [BaseConfig EXCEPT !.nextExpected = TRUE]
Redundant == [BaseConfig EXCEPT !.redundant = TRUE]

\* Up to two messages each way, a second connection and a process that dies, with and
\* without an initiator that announces what it expects next; and a Logout with
\* the connections before and after it.
Recovering ==
  {Scenario(Initiator(BaseConfig), BaseConfig, 2, 2, 1, 0),
   Scenario(Initiator(NextExpected), BaseConfig, 2, 2, 0, 0),
   Scenario(Initiator(NextExpected), BaseConfig, 1, 2, 1, 0),
   Scenario(Initiator(BaseConfig), BaseConfig, 1, 3, 0, 1)}

\* One connection, with each way to learn of a gap.
CatchingUp ==
  {Scenario(Initiator(BaseConfig), BaseConfig, 1, 1, 0, 0),
   Scenario(Initiator(NextExpected), BaseConfig, 1, 1, 0, 0),
   Scenario(Initiator(Redundant), Redundant, 1, 1, 0, 0)}

=============================================================================
