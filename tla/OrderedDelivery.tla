--------------------------- MODULE OrderedDelivery ---------------------------
(***************************************************************************)
(* What a FIX session promises the application, in one direction: what is  *)
(* sent is delivered in the order it was sent and, unless a Logout has     *)
(* overtaken messages that were still missing, with nothing left out.  A   *)
(* message is delivered once, with one exception: when the process dies    *)
(* before it has noted the delivery (CutShort), that message is delivered  *)
(* again, before any other.  A message is named by its place in what was   *)
(* sent.                                                                   *)
(***************************************************************************)
EXTENDS Naturals, Sequences

VARIABLES
  sent,      \* how many messages were sent
  delivered, \* the messages delivered, those whose delivery was noted
  cut,       \* the message delivered since, by a process that died over it (0: none)
  lossy      \* messages may be left out from now on

Init == sent = 0 /\ delivered = <<>> /\ cut = 0 /\ lossy = FALSE

Send == sent' = sent + 1 /\ UNCHANGED <<delivered, cut, lossy>>

Last == IF delivered = <<>> THEN 0 ELSE delivered[Len(delivered)]

\* The message that may be delivered next.
Due(k) == k \in (Last + 1)..sent /\ (lossy \/ k = Last + 1)

Deliver(k) ==
  /\ Due(k)
  /\ delivered' = Append(delivered, k) /\ cut' = 0
  /\ UNCHANGED <<sent, lossy>>

CutShort(k) ==
  /\ Due(k)
  /\ cut' = k
  /\ UNCHANGED <<sent, delivered, lossy>>

Overtake == lossy' = TRUE /\ UNCHANGED <<sent, delivered, cut>>

Next == Send \/ Overtake \/ \E k \in 1..sent : Deliver(k) \/ CutShort(k)

Spec == Init /\ [][Next]_<<sent, delivered, cut, lossy>>

=============================================================================
