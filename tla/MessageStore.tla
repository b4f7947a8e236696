---------------------------- MODULE MessageStore ----------------------------
(***************************************************************************)
(* What a MessageStore promises (src/C++/MessageStore.h): messages under   *)
(* their numbers and the two next numbers, changed by the call under way   *)
(* and by nothing else.  A message appears under the number that was next  *)
(* when Session::persist was called with it, and goes only by a reset; the *)
(* next numbers are those last set, and what is kept of them is brought up *)
(* to date by the call that changes them.  A crash or a failed write ends  *)
(* the call under way where it is, and takes nothing back.                 *)
(***************************************************************************)
EXTENDS Naturals

CONSTANTS Numbers, Messages

VARIABLES
  up,       \* a process has the store open
  next,     \* the next numbers an open store answers, the sender's and the target's
  kept,     \* those a store opened now would answer
  messages, \* the messages, by number
  call      \* the call under way, and what it does next

vars == <<up, next, kept, messages, call>>

Empty == [n \in {} |-> n]
NoCall == [op |-> "none"]

Init ==
  /\ up = FALSE /\ call = NoCall
  /\ next = <<1, 1>> /\ kept = <<1, 1>> /\ messages = Empty

\* Session::persist: set() under the next number, and the number counted.
Persist(m) ==
  /\ up /\ call = NoCall
  /\ call' = [op |-> "set", num |-> next[1], msg |-> m]
  /\ UNCHANGED <<up, next, kept, messages>>
Put ==
  /\ call.op = "set" /\ call' = [op |-> "count"]
  /\ messages' = [k \in DOMAIN messages \cup {call.num} |->
                    IF k = call.num THEN call.msg ELSE messages[k]]
  /\ UNCHANGED <<up, next, kept>>
Count ==
  /\ call.op = "count" /\ call' = [op |-> "numbers"]
  /\ next' = <<next[1] + 1, next[2]>>
  /\ UNCHANGED <<up, kept, messages>>

SetNext(sender, target) ==
  /\ up /\ call = NoCall /\ call' = [op |-> "numbers"]
  /\ sender = next[1] \/ target = next[2]
  /\ next' = <<sender, target>>
  /\ UNCHANGED <<up, kept, messages>>
Keep ==
  /\ call.op = "numbers" /\ call' = NoCall
  /\ kept' = next
  /\ UNCHANGED <<up, next, messages>>

\* reset() forgets the messages, then starts the kept numbers over, and only then
\* ends.
Reset ==
  /\ up /\ call = NoCall /\ call' = [op |-> "reset"]
  /\ next' = <<1, 1>>
  /\ UNCHANGED <<up, kept, messages>>
Forget ==
  /\ call.op = "reset" /\ messages' = Empty
  /\ UNCHANGED <<up, next, kept, call>>
StartOver ==
  /\ call.op = "reset" /\ messages = Empty /\ kept' = <<1, 1>>
  /\ UNCHANGED <<up, next, messages, call>>
EndReset ==
  /\ call.op = "reset" /\ messages = Empty /\ kept = <<1, 1>> /\ call' = NoCall
  /\ UNCHANGED <<up, next, kept, messages>>

Refresh ==
  /\ up /\ call = NoCall
  /\ next' = kept
  /\ UNCHANGED <<up, kept, messages, call>>

Fail ==
  /\ call # NoCall /\ call' = NoCall
  /\ UNCHANGED <<up, next, kept, messages>>
Crash ==
  /\ up /\ up' = FALSE /\ call' = NoCall
  /\ next' = kept
  /\ UNCHANGED <<kept, messages>>
Start ==
  /\ ~up /\ up' = TRUE
  /\ UNCHANGED <<next, kept, messages, call>>

Next ==
  \/ \E m \in Messages : Persist(m)
  \/ \E s, t \in Numbers : SetNext(s, t)
  \/ Put \/ Count \/ Keep
  \/ Reset \/ Forget \/ StartOver \/ EndReset
  \/ Refresh \/ Fail \/ Crash \/ Start

Spec == Init /\ [][Next]_vars

=============================================================================
